---- MODULE Spec2Model ----
(***************************************************************************)
(* A model of maybank_parser.py: the statement classifier, the two line    *)
(* matchers, the normaliser with its de-duplication, the reconciliation    *)
(* validator and the loop of process_all_statements that sequences them.   *)
(*                                                                         *)
(* Text is a sequence of one-character strings, so that the regular        *)
(* expressions and string operations of the source are computed on the     *)
(* characters and not assumed.  Amounts are IEEE-754 doubles, as Python's   *)
(* float() produces them (see the section "float").                        *)
(***************************************************************************)
EXTENDS Integers, Sequences, FiniteSets, TLC

(***************************************************************************)
(* Characters and Python's str operations                                  *)
(***************************************************************************)
NL == "\n"
Digits == <<"0", "1", "2", "3", "4", "5", "6", "7", "8", "9">>
UpperLetters == <<"A", "B", "C", "D", "E", "F", "G", "H", "I", "J", "K", "L", "M",
                  "N", "O", "P", "Q", "R", "S", "T", "U", "V", "W", "X", "Y", "Z">>
LowerLetters == <<"a", "b", "c", "d", "e", "f", "g", "h", "i", "j", "k", "l", "m",
                  "n", "o", "p", "q", "r", "s", "t", "u", "v", "w", "x", "y", "z">>
Range(s) == {s[i] : i \in 1..Len(s)}
DIGIT == Range(Digits)
UPPER == Range(UpperLetters)
LOWER == Range(LowerLetters)
\* what \s and str.split()/strip() take as whitespace
SPACE == {" ", "\t", NL, "\r", "\f"}

IndexOf(s, x) == CHOOSE i \in 1..Len(s) : s[i] = x
\* the value of a decimal digit character
DigitVal(c) == IndexOf(Digits, c) - 1

\* str.upper()
upper_char(c) == IF c \in LOWER THEN UpperLetters[IndexOf(LowerLetters, c)] ELSE c
upper(s) == [i \in 1..Len(s) |-> upper_char(s[i])]

\* s[a:b] for 1-based a and exclusive b: clipped to the string, empty when out of order
Slice(s, a, b) ==
    LET last == IF b - 1 > Len(s) THEN Len(s) ELSE b - 1 IN
    IF last < a THEN <<>> ELSE SubSeq(s, a, last)

\* s.startswith(p)
startswith(s, p) == Len(s) >= Len(p) /\ SubSeq(s, 1, Len(p)) = p
\* s.endswith(p)
endswith(s, p) == Len(s) >= Len(p) /\ SubSeq(s, Len(s) - Len(p) + 1, Len(s)) = p
\* p in s
contains(s, p) == \E i \in 1..(Len(s) - Len(p) + 1) : SubSeq(s, i, i + Len(p) - 1) = p

\* the least and the greatest element of a non-empty set of integers
MinOf(S) == CHOOSE m \in S : \A n \in S : m <= n
MaxOf(S) == CHOOSE m \in S : \A n \in S : m >= n
\* the elements of a set of integers in increasing order
Ascending(S) == [k \in 1..Cardinality(S) |-> CHOOSE p \in S : Cardinality({q \in S : q <= p}) = k]

\* s.strip()
strip(s) ==
    LET kept == {i \in 1..Len(s) : s[i] \notin SPACE} IN
    IF kept = {} THEN <<>> ELSE SubSeq(s, MinOf(kept), MaxOf(kept))

\* s.split(sep) for a one-character separator: always at least one piece
split(s, sep) ==
    LET at == Ascending({i \in 1..Len(s) : s[i] = sep})
        from(k) == IF k = 1 THEN 1 ELSE at[k - 1] + 1
        to(k) == IF k = Len(at) + 1 THEN Len(s) + 1 ELSE at[k]
    IN  [k \in 1..(Len(at) + 1) |-> Slice(s, from(k), to(k))]

\* s.split(): the maximal runs of non-whitespace
split_ws(s) ==
    LET pieces == split([i \in 1..Len(s) |-> IF s[i] \in SPACE THEN " " ELSE s[i]], " ")
    IN  SelectSeq(pieces, LAMBDA p : p # <<>>)

\* sep.join(parts)
RECURSIVE join(_, _)
join(sep, parts) ==
    IF parts = <<>> THEN <<>>
    ELSE IF Len(parts) = 1 THEN parts[1]
    ELSE parts[1] \o sep \o join(sep, Tail(parts))

\* s.replace(c, '') for a one-character c
remove_char(s, c) == SelectSeq(s, LAMBDA x : x # c)

(***************************************************************************)
(* Regular expressions: a pattern is a sequence of items, matched with the *)
(* backtracking order of Python's re (greedy longest first, lazy shortest  *)
(* first, alternatives left to right).                                     *)
(***************************************************************************)
\* a literal; ic is re.IGNORECASE
Lit(s) == [k |-> "lit", s |-> s, ic |-> FALSE]
LitI(s) == [k |-> "lit", s |-> s, ic |-> TRUE]
\* (s)? : an optional literal, taken when it can be
Opt(s) == [k |-> "opt", s |-> s, ic |-> FALSE]
\* (a|b|...) : alternatives tried in order
AltI(opts) == [k |-> "alt", opts |-> opts, ic |-> TRUE]
\* a character class repeated min..max times (max < 0: unbounded); neg
\* complements the class, so `.` is Any({NL}) and `.` under DOTALL is Any({})
Rep(cls, min, max) == [k |-> "rep", cls |-> cls, neg |-> FALSE, min |-> min, max |-> max, lazy |-> FALSE]
AnyLazy(excl, min) == [k |-> "rep", cls |-> excl, neg |-> TRUE, min |-> min, max |-> -1, lazy |-> TRUE]
\* ^ and $ ; ml is re.MULTILINE
Bol(ml) == [k |-> "bol", ml |-> ml]
Eol(ml) == [k |-> "eol", ml |-> ml]
\* the parentheses of capture group g
Open(g) == [k |-> "open", g |-> g]
Close(g) == [k |-> "close", g |-> g]

NoMatch == [ok |-> FALSE]
NoCaps == [g \in 1..5 |-> <<0, 0>>]

LitAt(t, pos, s, ic) ==
    /\ pos + Len(s) - 1 <= Len(t)
    /\ \A j \in 1..Len(s) :
          IF ic THEN upper_char(t[pos + j - 1]) = upper_char(s[j])
          ELSE t[pos + j - 1] = s[j]

\* how many characters from pos on lie in the class, counting at most max
RunLen(t, pos, cls, neg, max) ==
    LET limit == IF max >= 0 /\ pos + max - 1 < Len(t) THEN pos + max - 1 ELSE Len(t)
        out == {p \in pos..limit : (t[p] \in cls) = neg}
    IN  IF out = {} THEN limit - pos + 1 ELSE MinOf(out) - pos

RECURSIVE Match(_, _, _, _, _)
RECURSIVE RepTry(_, _, _, _, _, _, _, _)
RECURSIVE Follows(_, _, _, _)
RECURSIVE AltTry(_, _, _, _, _, _)

\* the match of items i.. of pat at position pos of t, or NoMatch
Match(t, pat, i, pos, caps) ==
    IF i > Len(pat) THEN [ok |-> TRUE, end |-> pos, caps |-> caps]
    ELSE LET it == pat[i] IN
      CASE it.k = "lit" ->
             IF LitAt(t, pos, it.s, it.ic)
             THEN Match(t, pat, i + 1, pos + Len(it.s), caps) ELSE NoMatch
        [] it.k = "opt" ->
             LET with == IF LitAt(t, pos, it.s, it.ic)
                         THEN Match(t, pat, i + 1, pos + Len(it.s), caps) ELSE NoMatch
             IN  IF with.ok THEN with ELSE Match(t, pat, i + 1, pos, caps)
        [] it.k = "alt" -> AltTry(t, pat, i, pos, caps, 1)
        [] it.k = "rep" ->
             LET run == RunLen(t, pos, it.cls, it.neg, it.max) IN
             IF run < it.min THEN NoMatch
             ELSE IF run = it.min THEN Match(t, pat, i + 1, pos + run, caps)
             ELSE IF it.lazy THEN RepTry(t, pat, i, pos, caps, it.min, run, 1)
             ELSE RepTry(t, pat, i, pos, caps, run, it.min, -1)
        [] it.k = "bol" ->
             IF pos = 1 \/ (it.ml /\ t[pos - 1] = NL)
             THEN Match(t, pat, i + 1, pos, caps) ELSE NoMatch
        [] it.k = "eol" ->
             IF \/ pos = Len(t) + 1
                \/ (it.ml /\ t[pos] = NL)
                \/ (pos = Len(t) /\ t[pos] = NL)
             THEN Match(t, pat, i + 1, pos, caps) ELSE NoMatch
        [] it.k = "open" ->
             Match(t, pat, i + 1, pos, [caps EXCEPT ![it.g] = <<pos, pos>>])
        [] it.k = "close" ->
             Match(t, pat, i + 1, pos, [caps EXCEPT ![it.g] = <<caps[it.g][1], pos>>])

\* the rest of the pattern, items i.., matches at pos
Follows(t, pat, i, pos) == Match(t, pat, i, pos, NoCaps).ok

\* item i repeated n times, then n + step, ..., last: the first count after
\* which the rest of the pattern matches
RepTry(t, pat, i, pos, caps, n, last, step) ==
    LET lo == IF step > 0 THEN n ELSE last
        hi == IF step > 0 THEN last ELSE n
        good == {c \in lo..hi : Follows(t, pat, i + 1, pos + c)}
    IN  IF good = {} THEN NoMatch
        ELSE Match(t, pat, i + 1, pos + (IF step > 0 THEN MinOf(good) ELSE MaxOf(good)), caps)

AltTry(t, pat, i, pos, caps, a) ==
    IF a > Len(pat[i].opts) THEN NoMatch
    ELSE LET r == IF LitAt(t, pos, pat[i].opts[a], pat[i].ic)
                  THEN Match(t, pat, i + 1, pos + Len(pat[i].opts[a]), caps)
                  ELSE NoMatch
         IN  IF r.ok THEN r ELSE AltTry(t, pat, i, pos, caps, a + 1)

\* pattern.match(t): a match starting at the first character
re_match(pat, t) == Match(t, pat, 1, 1, NoCaps)

\* re.search(pat, t) from position start on: the leftmost match
SearchFrom(pat, t, start) ==
    LET starts == {p \in start..(Len(t) + 1) : Follows(t, pat, 1, p)} IN
    IF starts = {} THEN NoMatch ELSE Match(t, pat, 1, MinOf(starts), NoCaps)
re_search(pat, t) == SearchFrom(pat, t, 1)

\* pattern.findall(t): the successive non-overlapping matches, left to right
RECURSIVE FindAllFrom(_, _, _)
FindAllFrom(pat, t, start) ==
    LET r == SearchFrom(pat, t, start) IN
    IF ~r.ok THEN <<>> ELSE <<r>> \o FindAllFrom(pat, t, r.end)
findall(pat, t) == FindAllFrom(pat, t, 1)

\* match.group(g); a group that took no part is the empty string
group(t, r, g) == Slice(t, r.caps[g][1], r.caps[g][2])

(***************************************************************************)
(* float: IEEE-754 binary64 values and arithmetic, exactly.  A value is     *)
(* [c, r] and stands for (c * 2^59 + r) / (100 * 2^59): c hundredths plus   *)
(* the residual r left by rounding to 53 significant bits.  2^-59 is the    *)
(* spacing of doubles in [2^-7, 2^-6), the binade of 0.01; the model holds  *)
(* for magnitudes below 2^9 (512.00), where every product fits TLC's        *)
(* integers.                                                               *)
(***************************************************************************)
RECURSIVE Pow2(_)
Pow2(n) == IF n = 0 THEN 1 ELSE 2 * Pow2(n - 1)
RECURSIVE Pow2Mod100(_)
Pow2Mod100(n) == IF n = 0 THEN 1 ELSE (2 * Pow2Mod100(n - 1)) % 100

\* value >= 2^e, for a value [c, r] with c >= 1
AtLeastPow2(c, r, e) ==
    IF e >= 0
    THEN c > 100 * Pow2(e) \/ (c = 100 * Pow2(e) /\ r >= 0)
    ELSE c * Pow2(-e) > 100 \/ (c * Pow2(-e) = 100 /\ r >= 0)
\* the binade of the value: the e with 2^e <= value < 2^(e+1)
RECURSIVE BinadeFrom(_, _, _)
BinadeFrom(c, r, e) == IF AtLeastPow2(c, r, e + 1) THEN BinadeFrom(c, r, e + 1) ELSE e
Binade(c, r) == BinadeFrom(c, r, -7)

\* round-to-nearest, ties-to-even, of the exact value [c, r] > 0
RoundPos(c, r) ==
    IF c = 0 THEN [c |-> 0, r |-> r]
    ELSE LET s    == Binade(c, r) + 7          \* the spacing is 2^(s - 59)
             m    == 100 * Pow2(s)
             rem2 == (Pow2(s + 1) * (((c % 100) * Pow2Mod100(58 - s)) % 100) + r) % (2 * m)
             rem  == rem2 % m
             odd  == rem2 >= m
         IN  IF rem = 0 THEN [c |-> c, r |-> r]
             ELSE IF 2 * rem < m \/ (2 * rem = m /\ ~odd) THEN [c |-> c, r |-> r - rem]
             ELSE [c |-> c, r |-> r - rem + m]
FloatNeg(x) == [c |-> -x.c, r |-> -x.r]
FloatIsNeg(x) == x.c < 0 \/ (x.c = 0 /\ x.r < 0)
FloatRound(x) == IF FloatIsNeg(x) THEN FloatNeg(RoundPos(-x.c, -x.r)) ELSE RoundPos(x.c, x.r)

FloatZero == [c |-> 0, r |-> 0]
\* x + y, x - y, abs(x), x <= y
FloatAdd(x, y) == FloatRound([c |-> x.c + y.c, r |-> x.r + y.r])
FloatSub(x, y) == FloatRound([c |-> x.c - y.c, r |-> x.r - y.r])
FloatAbs(x) == IF FloatIsNeg(x) THEN FloatNeg(x) ELSE x
FloatLE(x, y) == x.c < y.c \/ (x.c = y.c /\ x.r <= y.r)

\* the integer written by a string of decimal digits ('' is 0)
RECURSIVE DecVal(_)
DecVal(ds) == IF ds = <<>> THEN 0 ELSE 10 * DecVal(SubSeq(ds, 1,
    Len(ds) - 1)) + DigitVal(ds[Len(ds)])
\* float(s) for s of the shape \d*\.\d{2}: the double nearest to the decimal
float_of(s) ==
    LET n == Len(s) IN
    FloatRound([c |-> 100 * DecVal(SubSeq(s, 1, n - 3)) + DecVal(SubSeq(s, n - 1, n)), r |-> 0])
\* the decimal digits of n >= 0
RECURSIVE DecStr(_)
DecStr(n) == IF n < 10 THEN <<Digits[n + 1]>> ELSE Append(DecStr(n \div 10), Digits[(n % 10) + 1])
\* str(x) for a double x = float_of(s): the shortest decimal that reads back as x
float_str(x) ==
    DecStr(x.c \div 100) \o <<".">> \o
    (IF x.c % 100 = 0 THEN <<"0">>
     ELSE IF x.c % 10 = 0 THEN <<Digits[((x.c % 100) \div 10) + 1]>>
     ELSE <<Digits[((x.c % 100) \div 10) + 1], Digits[(x.c % 10) + 1]>>)

(***************************************************************************)
(* The parser's patterns and tables (MaybankStatementParser.__init__)      *)
(***************************************************************************)
CREDIT_CARD == "credit_card"
CURRENT_ACCOUNT == "current_account"
AUTO_DETECT == "auto_detect"
StatementType == {CREDIT_CARD, CURRENT_ACCOUNT, AUTO_DETECT}

\* \d{2}/\d{2}
DatePat == <<Rep(DIGIT, 2, 2), Lit(<<"/">>), Rep(DIGIT, 2, 2)>>
\* [\d,]+\.\d{2}
AmountPat == <<Rep(DIGIT \cup {","}, 1, -1), Lit(<<".">>), Rep(DIGIT, 2, 2)>>
\* \s+ and \s*
Ws1 == Rep(SPACE, 1, -1)
Ws0 == Rep(SPACE, 0, -1)

\* (\d{2}/\d{2})\s+(\d{2}/\d{2})\s+(.+?)\s+([\d,]+\.\d{2})(CR)?\s*$  with re.MULTILINE
credit_card_pattern ==
    <<Open(1)>> \o DatePat \o <<Close(1), Ws1, Open(2)>> \o DatePat \o <<Close(2), Ws1,
      Open(3), AnyLazy({NL}, 1), Close(3), Ws1, Open(4)>> \o AmountPat \o
    <<Close(4), Open(5), Opt(<<"C", "R">>), Close(5), Ws0, Eol(TRUE)>>

credit_card_indicators ==
    \* "CREDIT CARD STATEMENT", "MAYBANK CREDIT CARD", "CARD NUMBER", "CREDIT LIMIT"
    <<<<"C", "R", "E", "D", "I", "T", " ", "C", "A", "R", "D", " ", "S", "T", "A", "T", "E", "M",
        "E", "N", "T">>, <<"M", "A", "Y", "B", "A", "N", "K", " ", "C", "R", "E", "D", "I", "T",
        " ", "C", "A", "R", "D">>, <<"C", "A", "R", "D", " ", "N", "U", "M", "B", "E", "R">>,
        <<"C", "R", "E", "D", "I", "T", " ", "L", "I", "M", "I", "T">>,
      \* "MINIMUM PAYMENT"
      <<"M", "I", "N", "I", "M", "U", "M", " ", "P", "A", "Y", "M", "E", "N", "T">>>>

current_account_indicators ==
    \* "ACCOUNT TRANSACTIONS", "URUSNIAGA AKAUN", "CURRENT ACCOUNT STATEMENT"
    <<<<"A", "C", "C", "O", "U", "N", "T", " ", "T", "R", "A", "N", "S", "A", "C", "T", "I", "O",
        "N", "S">>, <<"U", "R", "U", "S", "N", "I", "A", "G", "A", " ", "A", "K", "A", "U", "N">>,
        <<"C", "U", "R", "R", "E", "N", "T", " ", "A", "C", "C", "O", "U", "N", "T", " ", "S", "T",
        "A", "T", "E", "M", "E", "N", "T">>,
      \* "SAVINGS ACCOUNT STATEMENT", "ACCOUNT NUMBER", "OPENING BALANCE"
      <<"S", "A", "V", "I", "N", "G", "S", " ", "A", "C", "C", "O", "U", "N", "T", " ", "S", "T",
          "A", "T", "E", "M", "E", "N", "T">>, <<"A", "C", "C", "O", "U", "N", "T", " ", "N", "U",
          "M", "B", "E", "R">>, <<"O", "P", "E", "N", "I", "N", "G", " ", "B", "A", "L", "A", "N",
          "C", "E">>,
      \* "CLOSING BALANCE", "BEGINNING BALANCE", "STATEMENT BALANCE"
      <<"C", "L", "O", "S", "I", "N", "G", " ", "B", "A", "L", "A", "N", "C", "E">>, <<"B", "E",
          "G", "I", "N", "N", "I", "N", "G", " ", "B", "A", "L", "A", "N", "C", "E">>, <<"S", "T",
          "A", "T", "E", "M", "E", "N", "T", " ", "B", "A", "L", "A", "N", "C", "E">>,
      \* "CDM CASH DEPOSIT", "TRANSFER TO A/C"
      <<"C", "D", "M", " ", "C", "A", "S", "H", " ", "D", "E", "P", "O", "S", "I", "T">>, <<"T",
          "R", "A", "N", "S", "F", "E", "R", " ", "T", "O", " ", "A", "/", "C">>>>

(***************************************************************************)
(* detect_statement_type                                                   *)
(***************************************************************************)
\* the number of indicator phrases that re.search finds in the text
Score(indicators, text_upper) ==
    Cardinality({i \in 1..Len(indicators) : contains(text_upper, indicators[i])})

\* a tie decided the other way round
detect_ties_to_current(text) ==
    IF Score(current_account_indicators, upper(text)) >= Score(credit_card_indicators, upper(text))
    THEN CURRENT_ACCOUNT
    ELSE CREDIT_CARD

detect_statement_type(text) ==
    LET text_upper == upper(text)
        credit_card_score == Score(credit_card_indicators, text_upper)
        current_account_score == Score(current_account_indicators, text_upper)
    IN  IF credit_card_score > current_account_score THEN CREDIT_CARD
        ELSE IF current_account_score > credit_card_score THEN CURRENT_ACCOUNT
        ELSE CREDIT_CARD

(***************************************************************************)
(* clean_description, is_valid_transaction                                 *)
(***************************************************************************)
clean_description(description) == strip(join(<<" ">>, split_ws(description)))

skip_keywords ==
    \* "BALANCE", "LIMIT", "STATEMENT", "PREVIOUS", "CURRENT", "MINIMUM"
    <<<<"B", "A", "L", "A", "N", "C", "E">>, <<"L", "I", "M", "I", "T">>, <<"S", "T", "A", "T",
        "E", "M", "E", "N", "T">>, <<"P", "R", "E", "V", "I", "O", "U", "S">>, <<"C", "U", "R",
        "R", "E", "N", "T">>, <<"M", "I", "N", "I", "M", "U", "M">>,
      \* "RETAIL INTEREST RATE", "YOUR COMBINED", "KOMBINASI HAD", "JUMLAH PENYATA"
      <<"R", "E", "T", "A", "I", "L", " ", "I", "N", "T", "E", "R", "E", "S", "T", " ", "R", "A",
          "T", "E">>, <<"Y", "O", "U", "R", " ", "C", "O", "M", "B", "I", "N", "E", "D">>, <<"K",
          "O", "M", "B", "I", "N", "A", "S", "I", " ", "H", "A", "D">>, <<"J", "U", "M", "L", "A",
          "H", " ", "P", "E", "N", "Y", "A", "T", "A">>,
      \* "TRANSACTED AMOUNT", "FOREIGN EXCHANGE"
      <<"T", "R", "A", "N", "S", "A", "C", "T", "E", "D", " ", "A", "M", "O", "U", "N", "T">>,
          <<"U", "S", "D">>, <<"F", "O", "R", "E", "I", "G", "N", " ", "E", "X", "C", "H", "A",
          "N", "G", "E">>>>

\* the keyword test left out
AlwaysValid(description) == TRUE

is_valid_transaction(description) ==
    LET description_upper == upper(description) IN
    ~ \E i \in 1..Len(skip_keywords) : contains(description_upper, skip_keywords[i])

(***************************************************************************)
(* extract_total_debit                                                     *)
(***************************************************************************)
\* "TOTAL DEBIT"
TotalDebit == LitI(<<"T", "O", "T", "A", "L", " ", "D", "E", "B", "I", "T">>)
\* "JUMLAH DEBIT"
JumlahDebit == LitI(<<"J", "U", "M", "L", "A", "H", " ", "D", "E", "B", "I", "T">>)
\* "(JUMLAH DEBIT)"
JumlahDebitParen == LitI(<<"(", "J", "U", "M", "L", "A", "H", " ", "D", "E", "B", "I", "T", ")">>)
\* "TOTAL DEBIT THIS MONTH"
ThisMonth == LitI(<<"T", "O", "T", "A", "L", " ", "D", "E", "B", "I", "T", " ", "T", "H", "I", "S",
    " ", "M", "O", "N", "T", "H">>)
\* "DEBIT TOTAL"
DebitTotal == LitI(<<"D", "E", "B", "I", "T", " ", "T", "O", "T", "A", "L">>)
Amount1 == <<Open(1)>> \o AmountPat \o <<Close(1)>>
\* the nine label patterns, all searched with re.IGNORECASE
total_patterns ==
    << <<TotalDebit, Ws0, Lit(<<":">>), Ws0>> \o Amount1,
       <<JumlahDebitParen>> \o Amount1,
       <<ThisMonth, Ws0, JumlahDebitParen, Ws0>> \o Amount1,
       <<ThisMonth, Ws1>> \o Amount1,
       <<JumlahDebit, Ws0>> \o Amount1,
       <<TotalDebit, Ws1>> \o Amount1,
       <<TotalDebit, Ws1>> \o Amount1,
       <<DebitTotal, Ws1>> \o Amount1,
       <<DebitTotal, Ws1>> \o Amount1 >>

\* Python's None, where a value may be absent
None == [none |-> TRUE]

\* the first pattern of the list that matches decides; float() of a matched
\* amount with its commas removed cannot fail
RECURSIVE TotalFrom(_, _)
TotalFrom(text, p) ==
    IF p > Len(total_patterns) THEN None
    ELSE LET match == re_search(total_patterns[p], text) IN
         IF match.ok THEN float_of(remove_char(group(text, match, 1), ","))
         ELSE TotalFrom(text, p + 1)
extract_total_debit(text) == TotalFrom(text, 1)

(***************************************************************************)
(* The state of one parser object and of its caller                        *)
(***************************************************************************)
VARIABLES
    statement_type,      \* self.statement_type, set by the constructor
    validation_results,  \* self.validation_results
    now,                 \* what datetime.now() returns during the run
    folder,              \* the pdf folder: None (missing) or Some(name -> what the extractor returns)
    pc,                  \* where process_all_statements stands
    pdf_files,           \* sorted(pdf_files), the list the loop walks
    file_index,          \* the loop's position in pdf_files, from 1
    text,                \* the loop's local text
    transactions,        \* the loop's local transactions
    seen_transactions,   \* parse_transactions' local set, as the last call left it
    parsed_as,           \* the branch the last parse_transactions call took
    validate_returned,   \* what the last validate_debit_transactions call returned
    all_transactions,    \* the local all_transactions
    processed_files,     \* the local processed_files
    returned,            \* the value process_all_statements returned, None before
    results,             \* what the methods a client called on the parser returned, in order
    password_cache,      \* self.password_cache
    use_same_password,   \* self.use_same_password
    common_password,     \* self.common_password
    pdf_path,            \* extract_text_from_pdf's argument
    reader,              \* extract_text_from_pdf's PyPDF2.PdfReader, None before the file is open
    attempt,             \* extract_text_from_pdf's loop variable
    password,            \* what _get_password_for_file returned last
    extracted,           \* how the last extract_text_from_pdf call ended, None while it runs
    scan_lines,          \* _parse_current_account_transactions' local lines
    scan_i,              \* its local i, counted from 1
    scan_j,              \* its local j, counted from 1
    scan_detail_lines    \* its local detail_lines

vars == <<statement_type, validation_results, now, folder, pc, pdf_files, file_index, text,
          transactions, seen_transactions, parsed_as, validate_returned, all_transactions,
          processed_files, returned, results, password_cache, use_same_password,
          common_password, pdf_path, reader, attempt, password, extracted, scan_lines, scan_i,
          scan_j, scan_detail_lines>>

\* the password fields of the parser and the state of extract_text_from_pdf
extractor == <<password_cache, use_same_password, common_password, pdf_path, reader, attempt,
               password, extracted>>

\* the password fields as __init__ leaves them, and no extraction under way
NoExtraction ==
    /\ password_cache = <<>>
    /\ use_same_password = None
    /\ common_password = None
    /\ pdf_path = None
    /\ reader = None
    /\ attempt = 0
    /\ password = None
    /\ extracted = None

\* the locals of the current-account scan
scanner == <<scan_lines, scan_i, scan_j, scan_detail_lines>>

\* no scan under way
NoScan ==
    /\ scan_lines = <<>>
    /\ scan_i = 1
    /\ scan_j = 1
    /\ scan_detail_lines = <<>>

Some(v) == [some |-> v]

(***************************************************************************)
(* datetime                                                                *)
(***************************************************************************)
IsLeap(y) == (y % 4 = 0 /\ y % 100 # 0) \/ y % 400 = 0
DaysInMonth(y, m) ==
    IF m \in {4, 6, 9, 11} THEN 30
    ELSE IF m = 2 THEN (IF IsLeap(y) THEN 29 ELSE 28)
    ELSE 31
\* datetime(y, m, d) does not raise ValueError
ValidDate(y, m, d) == y \in 1..9999 /\ m \in 1..12 /\ d \in 1..DaysInMonth(y, m)
RECURSIVE DaysBeforeMonth(_, _)
DaysBeforeMonth(y, m) == IF m = 1 THEN 0 ELSE DaysBeforeMonth(y, m - 1) + DaysInMonth(y, m - 1)
\* date.toordinal()
Ordinal(y, m, d) ==
    365 * (y - 1) + ((y - 1) \div 4) - ((y - 1) \div 100) + ((y - 1) \div 400)
      + DaysBeforeMonth(y, m) + d
\* (datetime(y, m, d) - current_date).days : whole days, rounded down; tod is
\* 0 when current_date is exactly midnight and 1 otherwise
DaysUntil(y, m, d, current_date) ==
    Ordinal(y, m, d) - Ordinal(current_date.year, current_date.month, current_date.day)
      - (IF current_date.tod = 0 THEN 0 ELSE 1)
RECURSIVE ZeroPad(_, _)
ZeroPad(s, width) == IF Len(s) >= width THEN s ELSE ZeroPad(<<"0">> \o s, width)
\* date_obj.strftime('%Y-%m-%d')
strftime(y, m, d) ==
    ZeroPad(DecStr(y), 4) \o <<"-">> \o ZeroPad(DecStr(m), 2) \o <<"-">> \o ZeroPad(DecStr(d), 2)

\* int(s) succeeds: s is a non-empty string of digits
IsInt(s) == s # <<>> /\ \A i \in 1..Len(s) : s[i] \in DIGIT

(***************************************************************************)
(* extract_statement_year                                                  *)
(***************************************************************************)
Year20 == <<Lit(<<"2", "0">>), Rep(DIGIT, 2, 2)>>
LETTER == UPPER \cup LOWER
\* Statement Date.*?Tarikh Penyata.*?Payment Due Date.*?Tarikh Akhir Pembayaran
\* with re.IGNORECASE | re.DOTALL
statement_section_pattern ==
    \* "Statement Date"
    <<LitI(<<"S", "t", "a", "t", "e", "m", "e", "n", "t", " ", "D", "a", "t", "e">>), AnyLazy({},
        0),
      \* "Tarikh Penyata"
      LitI(<<"T", "a", "r", "i", "k", "h", " ", "P", "e", "n", "y", "a", "t", "a">>), AnyLazy({},
          0),
      \* "Payment Due Date"
      LitI(<<"P", "a", "y", "m", "e", "n", "t", " ", "D", "u", "e", " ", "D", "a", "t", "e">>),
          AnyLazy({}, 0),
      \* "Tarikh Akhir Pembayaran"
      LitI(<<"T", "a", "r", "i", "k", "h", " ", "A", "k", "h", "i", "r", " ", "P", "e", "m", "b",
          "a", "y", "a", "r", "a", "n">>)>>
\* (\d{1,2})\s+(JAN|FEB|MAR|APR|MAY|JUN|JUL|AUG|SEP|OCT|NOV|DEC)\s+(\d{2})
date_pattern ==
    <<Open(1), Rep(DIGIT, 1, 2), Close(1), Ws1, Open(2),
      AltI(<<<<"J", "A", "N">>, <<"F", "E", "B">>, <<"M", "A", "R">>, <<"A", "P", "R">>, <<"M",
          "A", "Y">>, <<"J", "U", "N">>,
             <<"J", "U", "L">>, <<"A", "U", "G">>, <<"S", "E", "P">>, <<"O", "C", "T">>, <<"N",
                 "O", "V">>, <<"D", "E", "C">>>>),
      Close(2), Ws1, Open(3), Rep(DIGIT, 2, 2), Close(3)>>
\* Payment Due Date.*?\d{1,2}\s+[A-Z]+\s+(20\d{2})
due_date_pattern ==
    \* "Payment Due Date"
    <<LitI(<<"P", "a", "y", "m", "e", "n", "t", " ", "D", "u", "e", " ", "D", "a", "t", "e">>),
        AnyLazy({NL}, 0), Rep(DIGIT, 1, 2), Ws1,
      Rep(LETTER, 1, -1), Ws1, Open(1)>> \o Year20 \o <<Close(1)>>
\* (20\d{2})\s+Year End Summary
year_summary_pattern ==
    \* "Year End Summary"
    <<Open(1)>> \o Year20 \o <<Close(1), Ws1, LitI(<<"Y", "e", "a", "r", " ", "E", "n", "d", " ",
        "S", "u", "m", "m", "a", "r", "y">>)>>
\* Statement.*?Period.*?(20\d{2})
period_pattern ==
    \* "Statement", "Period"
    <<LitI(<<"S", "t", "a", "t", "e", "m", "e", "n", "t">>), AnyLazy({NL}, 0), LitI(<<"P", "e",
        "r", "i", "o", "d">>), AnyLazy({NL}, 0), Open(1)>>
      \o Year20 \o <<Close(1)>>
\* Payment.*?(20\d{2})
payment_year_pattern ==
    \* "Payment"
    <<LitI(<<"P", "a", "y", "m", "e", "n", "t">>), AnyLazy({NL}, 0),
        Open(1)>> \o Year20 \o <<Close(1)>>
\* (JANUARY|...|DECEMBER)\s+(20\d{2})
month_year_pattern ==
    <<Open(1),
      \* "JANUARY", "FEBRUARY", "MARCH", "APRIL", "JUNE"
      AltI(<<<<"J", "A", "N", "U", "A", "R", "Y">>, <<"F", "E", "B", "R", "U", "A", "R", "Y">>,
          <<"M", "A", "R", "C", "H">>, <<"A", "P", "R", "I", "L">>, <<"M", "A", "Y">>, <<"J", "U",
          "N", "E">>,
             \* "JULY", "AUGUST", "SEPTEMBER", "OCTOBER", "NOVEMBER", "DECEMBER"
             <<"J", "U", "L", "Y">>, <<"A", "U", "G", "U", "S", "T">>, <<"S", "E", "P", "T", "E",
                 "M", "B", "E", "R">>, <<"O", "C", "T", "O", "B", "E", "R">>, <<"N", "O", "V", "E",
                 "M", "B", "E", "R">>, <<"D", "E", "C", "E", "M", "B", "E", "R">>>>),
      Close(1), Ws1, Open(2)>> \o Year20 \o <<Close(2)>>

\* the year of the first of patterns[p..] found in the text, or None
RECURSIVE YearFrom(_, _, _)
YearFrom(text_, patterns, p) ==
    IF p > Len(patterns) THEN None
    ELSE LET m == re_search(patterns[p].pat, text_) IN
         IF m.ok THEN Some(DecVal(group(text_, m, patterns[p].g)))
         ELSE YearFrom(text_, patterns, p + 1)

\* the month name heuristic alone, tried before any other
extract_month_year_only(text_) ==
    LET m == re_search(month_year_pattern, text_) IN
    IF m.ok THEN Some(DecVal(group(text_, m, 2))) ELSE None

extract_statement_year(text_) ==
    LET statement_section == re_search(statement_section_pattern, text_)
        remaining_text == Slice(text_, statement_section.end, statement_section.end + 200)
        date_match == re_search(date_pattern, remaining_text)
    IN  IF statement_section.ok /\ date_match.ok
        THEN Some(2000 + DecVal(group(remaining_text, date_match, 3)))
        ELSE YearFrom(text_,
                      <<[pat |-> due_date_pattern, g |-> 1],
                        [pat |-> year_summary_pattern, g |-> 1],
                        [pat |-> period_pattern, g |-> 1],
                        [pat |-> payment_year_pattern, g |-> 1],
                        [pat |-> month_year_pattern, g |-> 2]>>, 1)

(***************************************************************************)
(* parse_date_maybank, _parse_current_account_date                         *)
(***************************************************************************)
\* the year parse_date_maybank settles on before it builds the date
TargetYear(day, month, statement_year) ==
    IF statement_year # None /\ statement_year.some # 0 THEN statement_year.some
    ELSE IF ~ValidDate(now.year, month, day) THEN now.year - 1
    ELSE IF DaysUntil(now.year, month, day, now) > 180 THEN now.year - 1
    ELSE now.year

\* the outcome of a block of code: the value it returns, or the exception it
\* raises
Returned(value) == [returns |-> Some(value), raises |-> None]
Raised(exception) == [returns |-> None, raises |-> Some(exception)]
ValueError == "ValueError"
KeyboardInterrupt == "KeyboardInterrupt"

\* no except clause catches anything
CatchesNothing(clause, exception) == FALSE

\* `except clause:` catches the exception; Exception is the base class of
\* every exception here but KeyboardInterrupt
Catches(clause, exception) ==
    clause = exception \/ (clause = "Exception" /\ exception # KeyboardInterrupt)

\* try: body / except clause: return fallback
TryExcept(body, clause, fallback) ==
    IF body.raises # None /\ Catches(clause, body.raises.some) THEN Returned(fallback)
    ELSE body

\* the try block of parse_date_maybank: map(int, ...) and the unpacking raise
\* ValueError, and so does datetime() for a day the month does not have
parse_date_maybank_try(date_str, statement_year) ==
    LET parts == split(date_str, "/") IN
    IF Len(parts) # 2 \/ ~IsInt(parts[1]) \/ ~IsInt(parts[2]) THEN Raised(ValueError)
    ELSE LET day == DecVal(parts[1])
             month == DecVal(parts[2])
             target_year == TargetYear(day, month, statement_year)
         IN  IF ValidDate(target_year, month, day)
             THEN Returned(strftime(target_year, month, day))
             ELSE Raised(ValueError)

\* the call: what it returns, or the exception that leaves it
parse_date_maybank_call(date_str, statement_year) ==
    TryExcept(parse_date_maybank_try(date_str, statement_year), "Exception", date_str)

parse_date_maybank(date_str, statement_year) ==
    parse_date_maybank_call(date_str, statement_year).returns.some

\* datetime.strptime(date_str, '%d/%m/%Y') and strftime of its result
strptime_dmy(parts) ==
    IF /\ IsInt(parts[1]) /\ IsInt(parts[2]) /\ IsInt(parts[3])
       /\ Len(parts[1]) <= 2 /\ Len(parts[2]) <= 2 /\ Len(parts[3]) = 4
       /\ ValidDate(DecVal(parts[3]), DecVal(parts[2]), DecVal(parts[1]))
    THEN Returned(strftime(DecVal(parts[3]), DecVal(parts[2]), DecVal(parts[1])))
    ELSE Raised(ValueError)

\* the try block of _parse_current_account_date: the DD/MM branch, the
\* DD/MM/YYYY branch, and the string returned as it is
_parse_current_account_date_try(date_str, statement_year) ==
    LET parts == split(date_str, "/") IN
    IF Len(parts) = 2
    THEN IF ~IsInt(parts[1]) \/ ~IsInt(parts[2]) THEN Raised(ValueError)
         ELSE LET day == DecVal(parts[1])
                  month == DecVal(parts[2])
                  year == IF statement_year # None /\ statement_year.some # 0
                          THEN statement_year.some ELSE now.year
              IN  IF ValidDate(year, month, day) THEN Returned(strftime(year, month, day))
                  ELSE Raised(ValueError)
    ELSE IF Len(parts) = 3 THEN strptime_dmy(parts)
    ELSE Returned(date_str)

_parse_current_account_date_call(date_str, statement_year) ==
    TryExcept(_parse_current_account_date_try(date_str, statement_year), ValueError, date_str)

_parse_current_account_date(date_str, statement_year) ==
    _parse_current_account_date_call(date_str, statement_year).returns.some


(***************************************************************************)
(* _parse_credit_card_transactions                                         *)
(***************************************************************************)
Transaction(date, posting_date, transaction_date, description, amount, type, source_file) ==
    [date |-> date, posting_date |-> posting_date, transaction_date |-> transaction_date,
     description |-> description, amount |-> amount, type |-> type,
     source_file |-> source_file]

\* the membership test left out: every candidate passes as new
NeverSeen(transaction_id, seen) == FALSE

\* transaction_id in seen_transactions
AlreadySeen(transaction_id, seen) == transaction_id \in seen

\* every transaction a debit, whatever follows the amount
AlwaysDebit(cr_flag) == "DEBIT"

\* 'CREDIT' if cr_flag == 'CR' else 'DEBIT'; cr_flag is '' when the group
\* after the amount matched nothing
CreditCardType(cr_flag) == IF cr_flag = <<"C", "R">> THEN "CREDIT" ELSE "DEBIT"

\* f"{transaction_date}_{description}_{amount}"
CreditCardId(transaction_date, description, amount) ==
    transaction_date \o <<"_">> \o description \o <<"_">> \o amount

\* the body of `for match in matches`, from match m on; acc holds the list
\* built so far and the set seen_transactions
RECURSIVE CreditCardLoop(_, _, _, _, _, _)
CreditCardLoop(text_, matches, m, filename, statement_year, acc) ==
    IF m > Len(matches) THEN acc
    ELSE LET match == matches[m]
             posting_date == group(text_, match, 1)
             transaction_date == group(text_, match, 2)
             description == clean_description(group(text_, match, 3))
             amount == group(text_, match, 4)
             cr_flag == group(text_, match, 5)
             amount_float == float_of(remove_char(amount, ","))
             transaction_type == CreditCardType(cr_flag)
             parsed_posting_date == parse_date_maybank(posting_date, statement_year)
             parsed_transaction_date == parse_date_maybank(transaction_date, statement_year)
             transaction_id == CreditCardId(transaction_date, description, amount)
             skip == CreditCardLoop(text_, matches, m + 1, filename, statement_year, acc)
         IN  IF description = <<>> \/ Len(description) < 3 THEN skip
             ELSE IF ~is_valid_transaction(description) THEN skip
             ELSE IF AlreadySeen(transaction_id, acc.seen) THEN skip
             ELSE CreditCardLoop(text_, matches, m + 1, filename, statement_year,
                    [transactions |->
                        Append(acc.transactions,
                               Transaction(parsed_transaction_date, parsed_posting_date,
                                           parsed_transaction_date, description, amount_float,
                                           transaction_type, filename)),
                     seen |-> acc.seen \cup {transaction_id}])

_parse_credit_card_transactions(text_, filename, statement_year, seen) ==
    CreditCardLoop(text_, findall(credit_card_pattern, text_), 1, filename, statement_year,
                   [transactions |-> <<>>, seen |-> seen])

(***************************************************************************)
(* _parse_current_account_transactions                                     *)
(***************************************************************************)
\* ^(\d{2}/\d{2})\s+(.+?)\s+([\d,]+\.\d{2}[+-])\s+([\d,]+\.\d{2})\s*$
transaction_pattern ==
    <<Bol(FALSE), Open(1)>> \o DatePat \o <<Close(1), Ws1, Open(2), AnyLazy({NL}, 1), Close(2),
      Ws1, Open(3)>> \o AmountPat \o <<Rep({"+", "-"}, 1, 1), Close(3), Ws1, Open(4)>>
      \o AmountPat \o <<Close(4), Ws0, Eol(FALSE)>>
\* ^\s+[A-Z0-9*\s]+$
detail_text_pattern ==
    <<Bol(FALSE), Ws1, Rep(UPPER \cup DIGIT \cup {"*"} \cup SPACE, 1, -1), Eol(FALSE)>>
\* ^\s+\d+Q?$
detail_code_pattern == <<Bol(FALSE), Ws1, Rep(DIGIT, 1, -1), Opt(<<"Q">>), Eol(FALSE)>>
\* ^\d{10,}
account_number_pattern == <<Bol(FALSE), Rep(DIGIT, 10, -1)>>
\* ^\d+Q$
reference_code_pattern == <<Bol(FALSE), Rep(DIGIT, 1, -1), Lit(<<"Q">>), Eol(FALSE)>>
\* ^[A-Z][A-Z0-9\s*]+$
name_pattern ==
    <<Bol(FALSE), Rep(UPPER, 1, 1), Rep(UPPER \cup DIGIT \cup {"*"} \cup SPACE, 1, -1),
      Eol(FALSE)>>

\* the direction read from the last character of the signed amount;
\* 'UNKNOWN' is the value the variable starts with
CurrentAccountType(amount_with_sign) ==
    IF endswith(amount_with_sign, <<"+">>) THEN "CREDIT"
    ELSE IF endswith(amount_with_sign, <<"-">>) THEN "DEBIT"
    ELSE "UNKNOWN"

\* the lookahead stops at a blank line only
StopsAtBlankOnly(next_line) == strip(next_line) = <<>>

\* the lookahead stops at next_line
StopsLookahead(next_line) ==
    LET stripped == strip(next_line) IN
    \/ re_match(transaction_pattern, stripped).ok
    \/ stripped = <<>>
    \* "BEGINNING BALANCE"
    \* "BEGINNING BALANCE"
    \/ startswith(stripped, <<"B", "E", "G", "I", "N", "N", "I", "N", "G", " ", "B", "A", "L", "A",
        "N", "C", "E">>)
    \* "ENDING BALANCE"
    \* "ENDING BALANCE"
    \/ startswith(stripped, <<"E", "N", "D", "I", "N", "G", " ", "B", "A", "L", "A", "N", "C",
        "E">>)

\* next_line is collected as a detail line
IsDetailLine(next_line) ==
    \/ startswith(next_line, <<" ", " ", " ">>)
    \/ re_match(detail_text_pattern, next_line).ok
    \* "DUITNOW"
    \/ contains(next_line, <<"D", "U", "I", "T", "N", "O", "W">>)
    \/ re_match(detail_code_pattern, next_line).ok

\* the inner `while j < len(lines)`: where it stops and what it collected
RECURSIVE Lookahead(_, _, _)
Lookahead(lines, j, detail_lines) ==
    IF j > Len(lines) \/ StopsLookahead(lines[j]) THEN [j |-> j, detail_lines |-> detail_lines]
    ELSE Lookahead(lines, j + 1,
                   IF IsDetailLine(lines[j]) THEN Append(detail_lines, strip(lines[j]))
                   ELSE detail_lines)

\* the filter that builds meaningful_details
IsMeaningful(detail) ==
    /\ detail # <<>> /\ detail # <<"*">> /\ Len(detail) > 1
    /\ \/ re_match(account_number_pattern, detail).ok
       \/ re_match(reference_code_pattern, detail).ok
       \/ re_match(name_pattern, detail).ok
       \* "DUITNOW"
       \/ contains(detail, <<"D", "U", "I", "T", "N", "O", "W">>)
       \/ Len(detail) > 3

\* the detail lines left out of the description
BaseDescriptionOnly(base_description, detail_lines) == strip(base_description)

\* base description plus ' | ' and the meaningful details joined by ' | '
FullDescription(base_description, detail_lines) ==
    LET meaningful_details == SelectSeq(detail_lines, IsMeaningful) IN
    IF meaningful_details = <<>> THEN strip(base_description)
    ELSE strip(base_description) \o <<" ", "|", " ">> \o join(<<" ", "|", " ">>, meaningful_details)

\* f"{date_str}_{full_description}_{amount_float}_{detail_summary}_{balance_str}"
CurrentAccountId(date_str, full_description, amount_float, detail_lines, balance_str) ==
    LET detail_summary == join(<<"|">>, SubSeq(detail_lines, 1, IF Len(detail_lines) < 3
                                                               THEN Len(detail_lines) ELSE 3))
    IN  date_str \o <<"_">> \o full_description \o <<"_">> \o float_str(amount_float) \o <<"_">>
          \o detail_summary \o <<"_">> \o balance_str

\* the outer `while i < len(lines)`, from line i on (lines are numbered from 1)
RECURSIVE CurrentAccountScan(_, _, _, _, _)
CurrentAccountScan(lines, i, filename, statement_year, acc) ==
    IF i > Len(lines) THEN acc
    ELSE LET line == strip(lines[i])
             match == re_match(transaction_pattern, line)
         IN  IF ~match.ok THEN CurrentAccountScan(lines, i + 1, filename, statement_year, acc)
             ELSE LET date_str == group(line, match, 1)
                      base_description == group(line, match, 2)
                      amount_with_sign == group(line, match, 3)
                      balance_str == group(line, match, 4)
                      ahead == Lookahead(lines, i + 1, <<>>)
                      j == ahead.j
                      detail_lines == ahead.detail_lines
                      full_description ==
                          clean_description(FullDescription(base_description, detail_lines))
                      amount_float ==
                          float_of(remove_char(SubSeq(amount_with_sign, 1,
                                                      Len(amount_with_sign) - 1), ","))
                      transaction_type == CurrentAccountType(amount_with_sign)
                      parsed_date == _parse_current_account_date(date_str, statement_year)
                      transaction_id == CurrentAccountId(date_str, full_description,
                                                         amount_float, detail_lines, balance_str)
                      skip == CurrentAccountScan(lines, j, filename, statement_year, acc)
                  IN  IF full_description = <<>> \/ Len(full_description) < 3 THEN skip
                      ELSE IF ~is_valid_transaction(full_description) THEN skip
                      ELSE IF transaction_type = "UNKNOWN" THEN skip
                      ELSE IF AlreadySeen(transaction_id, acc.seen) THEN skip
                      ELSE CurrentAccountScan(lines, j, filename, statement_year,
                             [transactions |->
                                 Append(acc.transactions,
                                        Transaction(parsed_date, parsed_date, parsed_date,
                                                    full_description, amount_float,
                                                    transaction_type, filename)),
                              seen |-> acc.seen \cup {transaction_id}])

_parse_current_account_transactions(text_, filename, statement_year, seen) ==
    CurrentAccountScan(split(text_, NL), 1, filename, statement_year,
                       [transactions |-> <<>>, seen |-> seen])

(***************************************************************************)
(* parse_transactions                                                      *)
(***************************************************************************)
\* the set kept from the call before, as an attribute of the parser would be
StaleSeenTransactions == seen_transactions

\* seen_transactions = set(): every call starts from an empty set
NewSeenTransactions == {}

\* the transactions, with the local set as the call left it; any statement
\* type but the two dialects returns the empty list
parse_transactions(text_, filename) ==
    LET statement_year == extract_statement_year(text_) IN
    IF statement_type = CREDIT_CARD
    THEN _parse_credit_card_transactions(text_, filename, statement_year, NewSeenTransactions)
    ELSE IF statement_type = CURRENT_ACCOUNT
    THEN _parse_current_account_transactions(text_, filename, statement_year,
                                             NewSeenTransactions)
    ELSE [transactions |-> <<>>, seen |-> NewSeenTransactions]

(***************************************************************************)
(* validate_debit_transactions                                             *)
(***************************************************************************)
\* sum(t['amount'] for t in debit_transactions): a left-to-right sum from 0
RECURSIVE FloatSum(_)
FloatSum(amounts) ==
    IF amounts = <<>> THEN FloatZero
    ELSE FloatAdd(FloatSum(SubSeq(amounts, 1, Len(amounts) - 1)), amounts[Len(amounts)])

\* the filter on the type left out
EveryTransaction(transactions_) == transactions_

\* [t for t in transactions if t['type'] == 'DEBIT']
DebitTransactions(transactions_) == SelectSeq(transactions_, LAMBDA t : t.type = "DEBIT")

Amounts(transactions_) == [i \in 1..Len(transactions_) |-> transactions_[i].amount]

\* tolerance = 0.01
tolerance == FloatRound([c |-> 1, r |-> 0])

\* difference <= tolerance
WithinTolerance(difference) == FloatLE(difference, tolerance)

\* the stated total looked up before the debits are counted, and a missing
\* total taken as a failure
validate_total_first(transactions_, text_, filename) ==
    LET calculated_debit_sum == FloatSum(Amounts(DebitTransactions(transactions_)))
        pdf_total_debit == extract_total_debit(text_)
        difference == FloatAbs(FloatSub(calculated_debit_sum, pdf_total_debit))
    IN  IF pdf_total_debit # None
        THEN [result |-> [filename |-> filename,
                          status |-> IF WithinTolerance(difference) THEN "PASS" ELSE "FAIL",
                          calculated_sum |-> calculated_debit_sum,
                          pdf_total |-> pdf_total_debit, difference |-> difference],
              returns |-> WithinTolerance(difference)]
        ELSE IF DebitTransactions(transactions_) = <<>>
        THEN [result |-> [filename |-> filename, status |-> "NO_DEBITS",
                          calculated_sum |-> FloatZero, pdf_total |-> None,
                          difference |-> FloatZero],
              returns |-> TRUE]
        ELSE [result |-> [filename |-> filename, status |-> "NO_TOTAL",
                          calculated_sum |-> calculated_debit_sum, pdf_total |-> None,
                          difference |-> None],
              returns |-> FALSE]

\* the verdict the call appends to validation_results, and what it returns
validate_debit_transactions(transactions_, text_, filename) ==
    LET debit_transactions == DebitTransactions(transactions_)
        calculated_debit_sum == FloatSum(Amounts(debit_transactions))
        pdf_total_debit == extract_total_debit(text_)
        difference == FloatAbs(FloatSub(calculated_debit_sum, pdf_total_debit))
        is_valid == WithinTolerance(difference)
    IN  IF debit_transactions = <<>>
        THEN [result |-> [filename |-> filename, status |-> "NO_DEBITS",
                          calculated_sum |-> FloatZero, pdf_total |-> None,
                          difference |-> FloatZero],
              returns |-> TRUE]
        ELSE IF pdf_total_debit # None
        THEN [result |-> [filename |-> filename,
                          status |-> IF is_valid THEN "PASS" ELSE "FAIL",
                          calculated_sum |-> calculated_debit_sum,
                          pdf_total |-> pdf_total_debit, difference |-> difference],
              returns |-> is_valid]
        ELSE [result |-> [filename |-> filename, status |-> "NO_TOTAL",
                          calculated_sum |-> calculated_debit_sum, pdf_total |-> None,
                          difference |-> None],
              returns |-> TRUE]

(***************************************************************************)
(* process_all_statements                                                  *)
(***************************************************************************)
\* the order of str comparison on the characters file names are made of
CharOrder == <<".">> \o Digits \o UpperLetters \o <<"_">> \o LowerLetters
\* a < b for strings
StrLess(a, b) ==
    \/ Len(a) < Len(b) /\ SubSeq(b, 1, Len(a)) = a
    \/ \E i \in 1..Len(a) :
          /\ i <= Len(b)
          /\ SubSeq(a, 1, i - 1) = SubSeq(b, 1, i - 1)
          /\ IndexOf(CharOrder, a[i]) < IndexOf(CharOrder, b[i])
\* sorted(names)
sorted(names) ==
    [k \in 1..Cardinality(names) |->
        CHOOSE n \in names : Cardinality({o \in names : StrLess(o, n)}) = k - 1]

\* `if text:` : neither None nor the empty string
Truthy(text_) == text_ # None /\ text_.some # <<>>


(***************************************************************************)
(* The texts extract_text_from_pdf returns: the pages' text, each page     *)
(* followed by a newline.  A document is a heading, transaction lines and  *)
(* a closing section.                                                      *)
(***************************************************************************)
\* "MAYBANK CREDIT CARD\nCard Number 1234\n"
CardHeading == <<"M", "A", "Y", "B", "A", "N", "K", " ", "C", "R", "E", "D", "I", "T", " ", "C",
    "A", "R", "D", NL, "C", "a", "r", "d", " ", "N", "u", "m", "b", "e", "r", " ", "1", "2", "3",
    "4", NL>>
\* "ACCOUNT NUMBER 5678\n"
AccountHeading == <<"A", "C", "C", "O", "U", "N", "T", " ", "N", "U", "M", "B", "E", "R", " ", "5",
    "6", "7", "8", NL>>
\* "Card Number 1 Account Number 2\n"
BothHeading == <<"C", "a", "r", "d", " ", "N", "u", "m", "b", "e", "r", " ", "1", " ", "A", "c",
    "c", "o", "u", "n", "t", " ", "N", "u", "m", "b", "e", "r", " ", "2", NL>>
DatedHeading ==
    \* "Statement Date Tarikh Penyata Payment Due Date Tarikh Akhir Pembayaran 08 JUN 24\n"
    <<"S", "t", "a", "t", "e", "m", "e", "n", "t", " ", "D", "a", "t", "e", " ", "T", "a", "r",
        "i", "k", "h", " ", "P", "e", "n", "y", "a", "t", "a", " ", "P", "a", "y", "m", "e", "n",
        "t", " ", "D", "u", "e", " ", "D", "a", "t", "e", " ", "T", "a", "r", "i", "k", "h", " ",
        "A", "k", "h", "i", "r", " ", "P", "e", "m", "b", "a", "y", "a", "r", "a", "n", " ", "0",
        "8", " ", "J", "U", "N", " ", "2", "4", NL>>
\* no heading at all, or one of these
Headings == {<<>>, CardHeading, AccountHeading, BothHeading, DatedHeading}

\* a purchase listed twice with different spacing, and a refund
CardRepeated ==
    \* "01/03 01/03 STARBUCKS KL 150.00\n01/03 01/03 STARBUCKS   KL 150.00\n02/03 02/03 REFUND 12.50CR\n"
    <<"0", "1", "/", "0", "3", " ", "0", "1", "/", "0", "3", " ", "S", "T", "A", "R", "B", "U",
        "C", "K", "S", " ", "K", "L", " ", "1", "5", "0", ".", "0", "0", NL, "0", "1", "/", "0",
        "3", " ", "0", "1", "/", "0", "3", " ", "S", "T", "A", "R", "B", "U", "C", "K", "S", " ",
        " ", " ", "K", "L", " ", "1", "5", "0", ".", "0", "0", NL, "0", "2", "/", "0", "3", " ",
        "0", "2", "/", "0", "3", " ", "R", "E", "F", "U", "N", "D", " ", "1", "2", ".", "5", "0",
        "C", "R", NL>>
\* "01/03 01/03 SHOP 1.01\n"
CardSingle == <<"0", "1", "/", "0", "3", " ", "0", "1", "/", "0", "3", " ", "S", "H", "O", "P",
    " ", "1", ".", "0", "1", NL>>
\* "01/03 01/03 SHOP 100.00\n02/03 03/03 SHOP 50.02\n"
CardTwo == <<"0", "1", "/", "0", "3", " ", "0", "1", "/", "0", "3", " ", "S", "H", "O", "P", " ",
    "1", "0", "0", ".", "0", "0", NL, "0", "2", "/", "0", "3", " ", "0", "3", "/", "0", "3", " ",
    "S", "H", "O", "P", " ", "5", "0", ".", "0", "2", NL>>
\* "02/03 02/03 REFUND 12.50CR\n"
CardRefund == <<"0", "2", "/", "0", "3", " ", "0", "2", "/", "0", "3", " ", "R", "E", "F", "U",
    "N", "D", " ", "1", "2", ".", "5", "0", "C", "R", NL>>
\* one amount written in two ways
\* "01/03 01/03 GRAB 1,50.00\n01/03 01/03 GRAB 150.00\n"
CardGrouped == <<"0", "1", "/", "0", "3", " ", "0", "1", "/", "0", "3", " ", "G", "R", "A", "B",
    " ", "1", ",", "5", "0", ".", "0", "0", NL, "0", "1", "/", "0", "3", " ", "0", "1", "/", "0",
    "3", " ", "G", "R", "A", "B", " ", "1", "5", "0", ".", "0", "0", NL>>
\* the same transfer twice, the running balance moving on
AccountTransfers ==
    \* "05/01 TRANSFER TO A/C 100.00- 500.00\n   1234567890123\n05/01 TRANSFER TO A/C 100.00- 400.00\n   1234567890123\n"
    <<"0", "5", "/", "0", "1", " ", "T", "R", "A", "N", "S", "F", "E", "R", " ", "T", "O", " ",
        "A", "/", "C", " ", "1", "0", "0", ".", "0", "0", "-", " ", "5", "0", "0", ".", "0", "0",
        NL, " ", " ", " ", "1", "2", "3", "4", "5", "6", "7", "8", "9", "0", "1", "2", "3", NL,
        "0", "5", "/", "0", "1", " ", "T", "R", "A", "N", "S", "F", "E", "R", " ", "T", "O", " ",
        "A", "/", "C", " ", "1", "0", "0", ".", "0", "0", "-", " ", "4", "0", "0", ".", "0", "0",
        NL, " ", " ", " ", "1", "2", "3", "4", "5", "6", "7", "8", "9", "0", "1", "2", "3", NL>>
\* a line repeated as it is, and a deposit
\* "05/01 ATM 1.01- 8.99\n05/01 ATM 1.01- 8.99\n06/01 CDM CASH DEPOSIT 50.00+ 58.99\n"
AccountRepeated == <<"0", "5", "/", "0", "1", " ", "A", "T", "M", " ", "1", ".", "0", "1", "-",
    " ", "8", ".", "9", "9", NL, "0", "5", "/", "0", "1", " ", "A", "T", "M", " ", "1", ".", "0",
    "1", "-", " ", "8", ".", "9", "9", NL, "0", "6", "/", "0", "1", " ", "C", "D", "M", " ", "C",
    "A", "S", "H", " ", "D", "E", "P", "O", "S", "I", "T", " ", "5", "0", ".", "0", "0", "+", " ",
    "5", "8", ".", "9", "9", NL>>
Bodies == {CardRepeated, CardSingle, CardTwo, CardRefund, CardGrouped, AccountTransfers,
           AccountRepeated}

\* "TOTAL DEBIT : 150.00\n"
ClosingTotal == <<"T", "O", "T", "A", "L", " ", "D", "E", "B", "I", "T", " ", ":", " ", "1", "5",
    "0", ".", "0", "0", NL>>
\* "Total Debit 1.00\n"
ClosingOne == <<"T", "o", "t", "a", "l", " ", "D", "e", "b", "i", "t", " ", "1", ".", "0", "0", NL>>
\* "(JUMLAH DEBIT)150.01\n"
ClosingJumlah == <<"(", "J", "U", "M", "L", "A", "H", " ", "D", "E", "B", "I", "T", ")", "1", "5",
    "0", ".", "0", "1", NL>>
Closings == {<<>>, ClosingTotal, ClosingOne, ClosingJumlah}

Documents == {h \o b \o f : h \in Headings, b \in Bodies, f \in Closings}

\* the documents the folder of a run holds
Statements ==
    {CardHeading \o CardRepeated \o ClosingTotal, AccountHeading \o AccountTransfers,
     DatedHeading \o CardRefund \o ClosingOne}

\* what extract_text_from_pdf returns for a file: None when the file cannot be
\* opened or decrypted, the empty string when it has no page, else its text
Extracted == {None, Some(<<>>)} \cup {Some(d) : d \in Statements}

\* "b.pdf", "a.pdf", "c.pdf"
PdfNames == {<<"b", ".", "p", "d", "f">>, <<"a", ".", "p", "d", "f">>, <<"c", ".", "p", "d", "f">>}
\* an entry the filter leaves out: endswith is case-sensitive
\* "a.PDF"
OtherNames == {<<"a", ".", "P", "D", "F">>}
\* the most .pdf files a folder holds
MaxFiles == 2
\* the most calls a client makes on one parser
MaxCalls == 3

\* ".pdf"
IsPdf(f) == endswith(f, <<".", "p", "d", "f">>)

\* os.listdir, with what the extractor would return for each entry; the
\* entries the run never opens are given None
Listing(pdfs) == [n \in OtherNames |-> None] @@ pdfs
Folders ==
    {None} \cup
    {Some(Listing(f)) : f \in UNION {[names -> Extracted] :
                                     names \in {s \in SUBSET PdfNames : Cardinality(s) <= MaxFiles}}}

\* datetime.now(): a day on which 01/03 is today, and one on which it lies ahead
Clock == {[year |-> 2025, month |-> 3, day |-> 1, tod |-> 1],
          [year |-> 2025, month |-> 1, day |-> 3, tod |-> 0]}

\* a new parser, before process_all_statements is called
Init ==
    /\ statement_type \in StatementType
    /\ validation_results = <<>>
    /\ now \in Clock
    /\ folder \in Folders
    /\ pc = "start"
    /\ pdf_files = <<>>
    /\ file_index = 1
    /\ text = None
    /\ transactions = <<>>
    /\ seen_transactions = {}
    /\ parsed_as = None
    /\ validate_returned = None
    /\ all_transactions = <<>>
    /\ processed_files = 0
    /\ returned = None
    /\ results = <<>>
    /\ NoExtraction
    /\ NoScan

\* os.path.exists fails, or no entry of the folder ends in .pdf: return []
ReturnEmpty ==
    /\ pc = "start"
    /\ \/ folder = None
       \/ /\ folder # None
          /\ {f \in DOMAIN folder.some : IsPdf(f)} = {}
    /\ pc' = "done"
    /\ returned' = Some(<<>>)
    /\ UNCHANGED <<statement_type, validation_results, now, folder, pdf_files, file_index, text,
                   transactions, seen_transactions, parsed_as, validate_returned,
                   all_transactions, processed_files, results>>
    /\ UNCHANGED extractor
    /\ UNCHANGED scanner

\* the listing, filtered and sorted; all_transactions = [], processed_files = 0
ListFiles ==
    /\ pc = "start"
    /\ folder # None
    /\ {f \in DOMAIN folder.some : IsPdf(f)} # {}
    /\ pdf_files' = sorted({f \in DOMAIN folder.some : IsPdf(f)})
    /\ file_index' = 1
    /\ all_transactions' = <<>>
    /\ processed_files' = 0
    /\ pc' = "extract"
    /\ UNCHANGED <<statement_type, validation_results, now, folder, text, transactions,
                   seen_transactions, parsed_as, validate_returned, returned, results>>
    /\ UNCHANGED extractor
    /\ UNCHANGED scanner

\* the loop moves to the next file, or ends
NextFile == IF file_index < Len(pdf_files) THEN "extract" ELSE "summary"

\* text = self.extract_text_from_pdf(pdf_path), and text is truthy
ExtractText ==
    /\ pc = "extract"
    /\ Truthy(folder.some[pdf_files[file_index]])
    /\ text' = folder.some[pdf_files[file_index]]
    /\ pc' = "parse"
    /\ UNCHANGED <<statement_type, validation_results, now, folder, pdf_files, file_index,
                   transactions, seen_transactions, parsed_as, validate_returned,
                   all_transactions, processed_files, returned, results>>
    /\ UNCHANGED extractor
    /\ UNCHANGED scanner

\* a failed extraction ending the loop, as a `break` in the else branch would
ExtractFailsAborts ==
    /\ pc = "extract"
    /\ ~Truthy(folder.some[pdf_files[file_index]])
    /\ text' = folder.some[pdf_files[file_index]]
    /\ pc' = "summary"
    /\ UNCHANGED <<statement_type, validation_results, now, folder, pdf_files, file_index,
                   transactions, seen_transactions, parsed_as, validate_returned,
                   all_transactions, processed_files, returned, results>>
    /\ UNCHANGED extractor
    /\ UNCHANGED scanner

\* text is None or empty: the else branch prints the failure and the loop goes on
ExtractFails ==
    /\ pc = "extract"
    /\ ~Truthy(folder.some[pdf_files[file_index]])
    /\ text' = folder.some[pdf_files[file_index]]
    /\ pc' = NextFile
    /\ file_index' = file_index + 1
    /\ UNCHANGED <<statement_type, validation_results, now, folder, pdf_files, transactions,
                   seen_transactions, parsed_as, validate_returned, all_transactions,
                   processed_files, returned, results>>
    /\ UNCHANGED extractor
    /\ UNCHANGED scanner

\* transactions = self.parse_transactions(text, filename)
ParseTransactions ==
    /\ pc = "parse"
    /\ \E parsed \in {parse_transactions(text.some, pdf_files[file_index])} :
          /\ transactions' = parsed.transactions
          /\ seen_transactions' = parsed.seen
    /\ parsed_as' = Some(statement_type)
    /\ pc' = "validate"
    /\ UNCHANGED <<statement_type, validation_results, now, folder, pdf_files, file_index, text,
                   validate_returned, all_transactions, processed_files, returned, results>>
    /\ UNCHANGED extractor
    /\ UNCHANGED scanner

\* the list of verdicts started anew for each document
ValidateDebitsOverwrites ==
    /\ pc = "validate"
    /\ \E v \in {validate_debit_transactions(transactions, text.some, pdf_files[file_index])} :
          /\ validation_results' = <<v.result>>
          /\ validate_returned' = Some(v.returns)
    /\ pc' = "extend"
    /\ UNCHANGED <<statement_type, now, folder, pdf_files, file_index, text, transactions,
                   seen_transactions, parsed_as, all_transactions, processed_files, returned,
                   results>>
    /\ UNCHANGED extractor
    /\ UNCHANGED scanner

\* self.validate_debit_transactions(transactions, text, filename)
ValidateDebits ==
    /\ pc = "validate"
    /\ \E v \in {validate_debit_transactions(transactions, text.some, pdf_files[file_index])} :
          /\ validation_results' = Append(validation_results, v.result)
          /\ validate_returned' = Some(v.returns)
    /\ pc' = "extend"
    /\ UNCHANGED <<statement_type, now, folder, pdf_files, file_index, text, transactions,
                   seen_transactions, parsed_as, all_transactions, processed_files, returned,
                   results>>
    /\ UNCHANGED extractor
    /\ UNCHANGED scanner

\* all_transactions.extend(transactions); processed_files += 1
ExtendAll ==
    /\ pc = "extend"
    /\ all_transactions' = all_transactions \o transactions
    /\ processed_files' = processed_files + 1
    /\ pc' = NextFile
    /\ file_index' = file_index + 1
    /\ UNCHANGED <<statement_type, validation_results, now, folder, pdf_files, text,
                   transactions, seen_transactions, parsed_as, validate_returned, returned,
                   results>>
    /\ UNCHANGED extractor
    /\ UNCHANGED scanner

\* the two summary lines are printed and all_transactions is returned
Summary ==
    /\ pc = "summary"
    /\ returned' = Some(all_transactions)
    /\ pc' = "done"
    /\ UNCHANGED <<statement_type, validation_results, now, folder, pdf_files, file_index, text,
                   transactions, seen_transactions, parsed_as, validate_returned,
                   all_transactions, processed_files, results>>
    /\ UNCHANGED extractor
    /\ UNCHANGED scanner

Next ==
    \/ ReturnEmpty
    \/ ListFiles
    \/ ExtractText
    \/ ExtractFails
    \/ ParseTransactions
    \/ ValidateDebits
    \/ ExtendAll
    \/ Summary


Spec == Init /\ [][Next]_vars

\* The loop is sequential code and every call in it returns: a step that can
\* be taken is taken.  ParseTransactions and ValidateDebits can be taken
\* exactly when pc is "parse" and "validate", and each of them moves pc on, so
\* their weak fairness is that pc does not stay there.
SpecFair ==
    /\ Spec
    /\ WF_vars(ReturnEmpty \/ ListFiles \/ ExtractText \/ ExtractFails \/ ExtendAll \/ Summary)
    /\ []<>(pc # "parse")
    /\ []<>(pc # "validate")

(***************************************************************************)
(* A client that calls the parser's methods itself, on one document,  as   *)
(* example_usage.py does with extract_text_from_pdf and parse_transactions *)
(***************************************************************************)
\* "a.pdf"
ClientFile == <<"a", ".", "p", "d", "f">>

Call(method, value) == [call |-> method, returns |-> value]

\* the values the calls of one method returned, in order
Returns(method) ==
    LET calls == SelectSeq(results, LAMBDA r : r.call = method)
    IN  [i \in 1..Len(calls) |-> calls[i].returns]

\* a new parser, and the text extracted from the client's file
InitClient ==
    /\ statement_type \in StatementType
    /\ validation_results = <<>>
    /\ now \in Clock
    /\ folder = None
    /\ pc = "client"
    /\ pdf_files = <<ClientFile>>
    /\ file_index = 1
    /\ text \in {Some(d) : d \in Documents}
    /\ transactions = <<>>
    /\ seen_transactions = {}
    /\ parsed_as = None
    /\ validate_returned = None
    /\ all_transactions = <<>>
    /\ processed_files = 0
    /\ returned = None
    /\ results = <<>>
    /\ NoExtraction
    /\ NoScan

\* parser.detect_statement_type(text)
CallDetect ==
    /\ pc = "client"
    /\ Len(results) < MaxCalls
    /\ results' = Append(results, Call("detect_statement_type", detect_statement_type(text.some)))
    /\ UNCHANGED <<statement_type, validation_results, now, folder, pc, pdf_files, file_index,
                   text, transactions, seen_transactions, parsed_as, validate_returned,
                   all_transactions, processed_files, returned>>
    /\ UNCHANGED extractor
    /\ UNCHANGED scanner

\* transactions = parser.parse_transactions(text, filename)
CallParse ==
    /\ pc = "client"
    /\ Len(results) < MaxCalls
    /\ \E parsed \in {parse_transactions(text.some, ClientFile)} :
          /\ transactions' = parsed.transactions
          /\ seen_transactions' = parsed.seen
          /\ results' = Append(results, Call("parse_transactions", parsed.transactions))
    /\ parsed_as' = Some(statement_type)
    /\ UNCHANGED <<statement_type, validation_results, now, folder, pc, pdf_files, file_index,
                   text, validate_returned, all_transactions, processed_files, returned>>
    /\ UNCHANGED extractor
    /\ UNCHANGED scanner

\* parser.validate_debit_transactions(transactions, text, filename), on the
\* list a parse_transactions call returned
CallValidate ==
    /\ pc = "client"
    /\ Len(results) < MaxCalls
    /\ parsed_as # None
    /\ \E v \in {validate_debit_transactions(transactions, text.some, ClientFile)} :
          /\ validation_results' = Append(validation_results, v.result)
          /\ validate_returned' = Some(v.returns)
          /\ results' = Append(results, Call("validate_debit_transactions", v.returns))
    /\ UNCHANGED <<statement_type, now, folder, pc, pdf_files, file_index, text, transactions,
                   seen_transactions, parsed_as, all_transactions, processed_files, returned>>
    /\ UNCHANGED extractor
    /\ UNCHANGED scanner

NextClient ==
    \/ CallDetect
    \/ CallParse
    \/ CallValidate

SpecClient == InitClient /\ [][NextClient]_vars

(***************************************************************************)
(* A client that parses a text of a few lines: a transaction line, the     *)
(* lines that may follow it, and a line of another transaction             *)
(***************************************************************************)
\* current-account transaction lines: a debit, a credit, a description of two
\* characters, and a description with a skip keyword in lower case
\* "05/01 TRANSFER TO A/C 100.00- 500.00\n"
AccountDebitLine == <<"0", "5", "/", "0", "1", " ", "T", "R", "A", "N", "S", "F", "E", "R", " ",
    "T", "O", " ", "A", "/", "C", " ", "1", "0", "0", ".", "0", "0", "-", " ", "5", "0", "0", ".",
    "0", "0", NL>>
\* "06/01 CDM CASH DEPOSIT 50.00+ 550.00\n"
AccountCreditLine == <<"0", "6", "/", "0", "1", " ", "C", "D", "M", " ", "C", "A", "S", "H", " ",
    "D", "E", "P", "O", "S", "I", "T", " ", "5", "0", ".", "0", "0", "+", " ", "5", "5", "0", ".",
    "0", "0", NL>>
\* "07/01 AB 1.00- 2.00\n"
AccountShortLine == <<"0", "7", "/", "0", "1", " ", "A", "B", " ", "1", ".", "0", "0", "-", " ",
    "2", ".", "0", "0", NL>>
\* "08/01 Minimum fee 1.00- 2.00\n"
AccountKeywordLine == <<"0", "8", "/", "0", "1", " ", "M", "i", "n", "i", "m", "u", "m", " ", "f",
    "e", "e", " ", "1", ".", "0", "0", "-", " ", "2", ".", "0", "0", NL>>
\* credit-card transaction lines: a refund, a purchase, and the same two cases
\* "01/03 01/03 STARBUCKS   KL 12.50CR\n"
CardCreditLine == <<"0", "1", "/", "0", "3", " ", "0", "1", "/", "0", "3", " ", "S", "T", "A", "R",
    "B", "U", "C", "K", "S", " ", " ", " ", "K", "L", " ", "1", "2", ".", "5", "0", "C", "R", NL>>
\* "02/03 02/03 SHOP 1.01\n"
CardDebitLine == <<"0", "2", "/", "0", "3", " ", "0", "2", "/", "0", "3", " ", "S", "H", "O", "P",
    " ", "1", ".", "0", "1", NL>>
\* "03/03 03/03 AB 5.00\n"
CardShortLine == <<"0", "3", "/", "0", "3", " ", "0", "3", "/", "0", "3", " ", "A", "B", " ", "5",
    ".", "0", "0", NL>>
\* "04/03 04/03 Credit limit 5.00\n"
CardKeywordLine == <<"0", "4", "/", "0", "3", " ", "0", "4", "/", "0", "3", " ", "C", "r", "e",
    "d", "i", "t", " ", "l", "i", "m", "i", "t", " ", "5", ".", "0", "0", NL>>
StartLines == {AccountDebitLine, AccountShortLine, AccountKeywordLine,
               CardCreditLine, CardShortLine, CardKeywordLine}

\* lines that may follow a transaction line
\* "   1234567890123\n"
AccountNumberLine == <<" ", " ", " ", "1", "2", "3", "4", "5", "6", "7", "8", "9", "0", "1", "2",
    "3", NL>>
\* "   JOHN   DOE\n"
NameLine == <<" ", " ", " ", "J", "O", "H", "N", " ", " ", " ", "D", "O", "E", NL>>
\* "  7Q\n"
ReferenceLine == <<" ", " ", "7", "Q", NL>>
\* "   *\n"
StarLine == <<" ", " ", " ", "*", NL>>
\* "   **\n"
TwoStarLine == <<" ", " ", " ", "*", "*", NL>>
\* "   ****\n"
FourStarLine == <<" ", " ", " ", "*", "*", "*", "*", NL>>
\* "   A\n"
LetterLine == <<" ", " ", " ", "A", NL>>
\* "note\n"
NoteLine == <<"n", "o", "t", "e", NL>>
\* "  \n"
BlankLine == <<" ", " ", NL>>
\* "ENDING BALANCE 400.00\n"
EndingLine == <<"E", "N", "D", "I", "N", "G", " ", "B", "A", "L", "A", "N", "C", "E", " ", "4",
    "0", "0", ".", "0", "0", NL>>
\* " BEGINNING BALANCE 500.00\n"
BeginningLine == <<" ", "B", "E", "G", "I", "N", "N", "I", "N", "G", " ", "B", "A", "L", "A", "N",
    "C", "E", " ", "5", "0", "0", ".", "0", "0", NL>>
FirstAfter == {<<>>, AccountNumberLine, NameLine, ReferenceLine, StarLine, TwoStarLine,
               FourStarLine, LetterLine, NoteLine, BlankLine, EndingLine, BeginningLine}
SecondAfter == {<<>>, AccountNumberLine, NameLine, TwoStarLine, BlankLine, BeginningLine}
\* no further transaction, a deposit, a deposit with a detail line of its
\* own, or a purchase
LastLines == {<<>>, AccountCreditLine, AccountCreditLine \o AccountNumberLine, CardDebitLine}

LineTexts == {s \o a \o b \o l : s \in StartLines, a \in FirstAfter, b \in SecondAfter,
                                 l \in LastLines}

\* a new parser of one of the two dialects, and the text to parse
InitLines ==
    /\ statement_type \in {CREDIT_CARD, CURRENT_ACCOUNT}
    /\ validation_results = <<>>
    /\ now \in {clock \in Clock : clock.tod = 1}
    /\ folder = None
    /\ pc = "client"
    /\ pdf_files = <<ClientFile>>
    /\ file_index = 1
    /\ text \in {Some(d) : d \in LineTexts}
    /\ transactions = <<>>
    /\ seen_transactions = {}
    /\ parsed_as = None
    /\ validate_returned = None
    /\ all_transactions = <<>>
    /\ processed_files = 0
    /\ returned = None
    /\ results = <<>>
    /\ NoExtraction
    /\ NoScan

SpecLines == InitLines /\ [][CallParse]_vars

(***************************************************************************)
(* A client that calls one of the two date methods once                    *)
(***************************************************************************)
\* two-digit days and months, some of them on no calendar
DayTexts == {<<"0", "0">>, <<"0", "1">>, <<"2", "8">>, <<"2", "9">>, <<"3", "0">>, <<"3", "1">>,
    <<"3", "2">>, <<"9", "9">>}
MonthTexts == {<<"0", "0">>, <<"0", "1">>, <<"0", "2">>, <<"0", "4">>, <<"0", "8">>, <<"0", "9">>,
    <<"1", "2">>, <<"1", "3">>}
\* the DD/MM strings the transaction patterns hand to the date methods
DateStrings == {day \o <<"/">> \o month : day \in DayTexts, month \in MonthTexts}
\* what extract_statement_year gave: nothing, a leap year, or the year after it
StatementYears == {None, Some(2024), Some(2025)}
\* datetime.now(): also a day in a year that follows no leap year, and the
\* last day of a leap year
DateClock ==
    Clock \cup {[year |-> 2026, month |-> 3, day |-> 1, tod |-> 0],
                [year |-> 2024, month |-> 12, day |-> 31, tod |-> 1]}

\* a call with its arguments and its outcome
CallRecord(method, args, outcome) ==
    [call |-> method, args |-> args, returns |-> outcome.returns, raises |-> outcome.raises]

InitDates ==
    /\ statement_type = CREDIT_CARD
    /\ validation_results = <<>>
    /\ now \in DateClock
    /\ folder = None
    /\ pc = "dates"
    /\ pdf_files = <<>>
    /\ file_index = 1
    /\ text = None
    /\ transactions = <<>>
    /\ seen_transactions = {}
    /\ parsed_as = None
    /\ validate_returned = None
    /\ all_transactions = <<>>
    /\ processed_files = 0
    /\ returned = None
    /\ results = <<>>
    /\ NoExtraction
    /\ NoScan

\* parser.parse_date_maybank(date_str, statement_year)
CallParseDateMaybank ==
    /\ pc = "dates"
    /\ results = <<>>
    /\ \E date_str \in DateStrings, statement_year \in StatementYears :
          results' = <<CallRecord("parse_date_maybank",
                                  [date_str |-> date_str, statement_year |-> statement_year],
                                  parse_date_maybank_call(date_str, statement_year))>>
    /\ UNCHANGED <<statement_type, validation_results, now, folder, pc, pdf_files, file_index,
                   text, transactions, seen_transactions, parsed_as, validate_returned,
                   all_transactions, processed_files, returned>>
    /\ UNCHANGED extractor
    /\ UNCHANGED scanner

\* parser._parse_current_account_date(date_str, statement_year)
CallParseCurrentAccountDate ==
    /\ pc = "dates"
    /\ results = <<>>
    /\ \E date_str \in DateStrings, statement_year \in StatementYears :
          results' = <<CallRecord("_parse_current_account_date",
                                  [date_str |-> date_str, statement_year |-> statement_year],
                                  _parse_current_account_date_call(date_str, statement_year))>>
    /\ UNCHANGED <<statement_type, validation_results, now, folder, pc, pdf_files, file_index,
                   text, transactions, seen_transactions, parsed_as, validate_returned,
                   all_transactions, processed_files, returned>>
    /\ UNCHANGED extractor
    /\ UNCHANGED scanner

NextDates ==
    \/ CallParseDateMaybank
    \/ CallParseCurrentAccountDate

SpecDates == InitDates /\ [][NextDates]_vars

(***************************************************************************)
(* A client that calls extract_statement_year on the head of a statement   *)
(***************************************************************************)
\* the header heuristic (a) looks for, and a date as it follows the header
\* "Statement Date Tarikh Penyata Payment Due Date Tarikh Akhir Pembayaran"
StatementHeader == <<"S", "t", "a", "t", "e", "m", "e", "n", "t", " ", "D", "a", "t", "e", " ",
    "T", "a", "r", "i", "k", "h", " ", "P", "e", "n", "y", "a", "t", "a", " ", "P", "a", "y", "m",
    "e", "n", "t", " ", "D", "u", "e", " ", "D", "a", "t", "e", " ", "T", "a", "r", "i", "k", "h",
    " ", "A", "k", "h", "i", "r", " ", "P", "e", "m", "b", "a", "y", "a", "r", "a", "n">>
\* "08 JUN 21"
DateToken == <<"0", "8", " ", "J", "U", "N", " ", "2", "1">>
Filler(n) == [i \in 1..n |-> " "]
\* the date right after the header; the date ending on the last character
\* of the 200 that are searched; the date ending one character later; no date
HeaderDated == StatementHeader \o <<" ">> \o DateToken \o <<NL>>
HeaderNear == StatementHeader \o Filler(200 - Len(DateToken)) \o DateToken \o <<NL>>
HeaderFar == StatementHeader \o Filler(201 - Len(DateToken)) \o DateToken \o <<NL>>
HeaderBare == StatementHeader \o <<NL>>
HeaderLines == {HeaderDated, HeaderNear, HeaderFar, HeaderBare}
\* one line for each of the heuristics (b) to (f), each with a year of its
\* own, and a line without any year
\* "Payment Due Date 28 JANUARY 2022\n"
DueDateLine == <<"P", "a", "y", "m", "e", "n", "t", " ", "D", "u", "e", " ", "D", "a", "t", "e",
    " ", "2", "8", " ", "J", "A", "N", "U", "A", "R", "Y", " ", "2", "0", "2", "2", NL>>
\* "2023 Year End Summary\n"
YearEndLine == <<"2", "0", "2", "3", " ", "Y", "e", "a", "r", " ", "E", "n", "d", " ", "S", "u",
    "m", "m", "a", "r", "y", NL>>
\* "Statement Period 01/01/2024\n"
PeriodLine == <<"S", "t", "a", "t", "e", "m", "e", "n", "t", " ", "P", "e", "r", "i", "o", "d",
    " ", "0", "1", "/", "0", "1", "/", "2", "0", "2", "4", NL>>
\* "Payment received 2025\n"
PaymentLine == <<"P", "a", "y", "m", "e", "n", "t", " ", "r", "e", "c", "e", "i", "v", "e", "d",
    " ", "2", "0", "2", "5", NL>>
\* "MARCH 2026\n"
MonthLine == <<"M", "A", "R", "C", "H", " ", "2", "0", "2", "6", NL>>
\* "Account 12345\n"
PlainLine == <<"A", "c", "c", "o", "u", "n", "t", " ", "1", "2", "3", "4", "5", NL>>
PhraseLines == {DueDateLine, YearEndLine, PeriodLine, PaymentLine, MonthLine, PlainLine}

\* no line, one line, or two different lines in either order, at most one of
\* them a header
YearTexts ==
    {<<>>} \cup HeaderLines \cup PhraseLines
      \cup {h \o p : h \in HeaderLines, p \in PhraseLines}
      \cup {p \o h : h \in HeaderLines, p \in PhraseLines}
      \cup {pq[1] \o pq[2] : pq \in {x \in PhraseLines \X PhraseLines : x[1] # x[2]}}

InitYear ==
    /\ statement_type = CREDIT_CARD
    /\ validation_results = <<>>
    /\ now \in Clock
    /\ folder = None
    /\ pc = "year"
    /\ pdf_files = <<ClientFile>>
    /\ file_index = 1
    /\ text \in {Some(d) : d \in YearTexts}
    /\ transactions = <<>>
    /\ seen_transactions = {}
    /\ parsed_as = None
    /\ validate_returned = None
    /\ all_transactions = <<>>
    /\ processed_files = 0
    /\ returned = None
    /\ results = <<>>
    /\ NoExtraction
    /\ NoScan

\* parser.extract_statement_year(text)
CallExtractYear ==
    /\ pc = "year"
    /\ Len(results) < MaxCalls
    /\ results' = Append(results,
                         Call("extract_statement_year", extract_statement_year(text.some)))
    /\ UNCHANGED <<statement_type, validation_results, now, folder, pc, pdf_files, file_index,
                   text, transactions, seen_transactions, parsed_as, validate_returned,
                   all_transactions, processed_files, returned>>
    /\ UNCHANGED extractor
    /\ UNCHANGED scanner

SpecYear == InitYear /\ [][CallExtractYear]_vars

(***************************************************************************)
(* extract_text_from_pdf and _get_password_for_file, with the PDF files,   *)
(* PyPDF2 and the user at the terminal as the environment                  *)
(***************************************************************************)
\* os.path.basename
basename(path) ==
    LET slashes == {i \in 1..Len(path) : path[i] = "/"}
    IN IF slashes = {} THEN path ELSE SubSeq(path, MaxOf(slashes) + 1, Len(path))

\* self.password_cache[filename] = value
SetItem(dict, filename, value) ==
    [f \in DOMAIN dict \cup {filename} |-> IF f = filename THEN value ELSE dict[f]]
\* del self.password_cache[filename]
DelItem(dict, filename) == [f \in DOMAIN dict \ {filename} |-> dict[f]]

EOFError == "EOFError"
NotImplementedError == "NotImplementedError"

\* what the user may type at a password prompt
Passwords == {"", "user", "owner", "wrong", "unsupported"}

\* reader.decrypt of a document locked with a user and an owner password:
\* PasswordType.NOT_DECRYPTED, USER_PASSWORD, OWNER_PASSWORD, or an error
LockedDecrypt ==
    [p \in Passwords |->
        IF p = "user" THEN Returned(1)
        ELSE IF p = "owner" THEN Returned(2)
        ELSE IF p = "unsupported" THEN Raised(NotImplementedError)
        ELSE Returned(0)]

\* the pages of a document: the text of a page, or None for a page whose
\* extract_text raises
\* "05/01 A 1.00"
SomePages == <<Some(<<"0", "5", "/", "0", "1", " ", "A", " ", "1", ".", "0", "0">>), None,
    Some(<<"B">>)>>

\* no file at the path
MissingPdf == [exists |-> FALSE, is_encrypted |-> FALSE, decrypt |-> LockedDecrypt, pages |-> <<>>]
PlainPdf == [exists |-> TRUE, is_encrypted |-> FALSE, decrypt |-> LockedDecrypt, pages |-> SomePages]
\* encrypted with the empty user password
EmptyPasswordPdf ==
    [exists |-> TRUE, is_encrypted |-> TRUE, decrypt |-> [p \in Passwords |-> Returned(1)],
     pages |-> SomePages]
LockedPdf == [exists |-> TRUE, is_encrypted |-> TRUE, decrypt |-> LockedDecrypt, pages |-> SomePages]
\* encrypted in a way the library cannot handle at all
UnsupportedPdf ==
    [exists |-> TRUE, is_encrypted |-> TRUE,
     decrypt |-> [p \in Passwords |-> Raised(NotImplementedError)], pages |-> SomePages]
PdfDocuments == {MissingPdf, PlainPdf, EmptyPasswordPdf, LockedPdf, UnsupportedPdf}

\* the final answer at the same-password prompt, the answers that make the
\* loop ask again left out: yes, no, Ctrl-C, or the end of the input
Answers == {"y", "n", KeyboardInterrupt, EOFError}
\* what getpass gives: a password, Ctrl-C, or the end of the input
Typed == {Returned(p) : p \in Passwords} \cup {Raised(KeyboardInterrupt), Raised(EOFError)}

max_password_attempts == 3

\* no attempt is the last
NeverLastAttempt(attempt_) == FALSE

\* the attempt after which a failure returns None
IsLastAttempt(attempt_) == attempt_ = max_password_attempts - 1

\* the three password fields of the parser
PasswordFields ==
    [password_cache |-> password_cache, use_same_password |-> use_same_password,
     common_password |-> common_password]

\* self._get_password_for_file(pdf_path, attempt): the fields after the call
\* and how the call ended
_get_password_for_file(self, path, attempt_, answer, typed) ==
    LET filename == basename(path)
        asked == IF self.use_same_password = None
                 THEN [self EXCEPT !.use_same_password = Some(answer = "y")]
                 ELSE self
        same == asked.use_same_password = Some(TRUE)
    IN IF filename \in DOMAIN self.password_cache
       THEN [self |-> self, outcome |-> Returned(Some(self.password_cache[filename]))]
       ELSE IF self.use_same_password = None /\ answer \in {KeyboardInterrupt, EOFError}
       THEN [self |-> self, outcome |-> Raised(answer)]
       ELSE IF same /\ asked.common_password # None
       THEN [self |-> [asked EXCEPT !.password_cache =
                                       SetItem(@, filename, asked.common_password.some)],
             outcome |-> Returned(asked.common_password)]
       ELSE IF typed.raises # None
       THEN [self |-> asked, outcome |-> Returned(None)]
       ELSE IF typed.returns.some = ""
       THEN [self |-> asked, outcome |-> Returned(None)]
       ELSE [self |-> [asked EXCEPT
                          !.common_password = IF same THEN typed.returns ELSE @,
                          !.password_cache = SetItem(@, filename, typed.returns.some)],
             outcome |-> Returned(typed.returns)]

\* text = '' and the loop over reader.pages
RECURSIVE PagesText(_)
PagesText(pages) ==
    IF pages = <<>> THEN <<>>
    ELSE PagesText(SubSeq(pages, 1, Len(pages) - 1))
           \o (IF pages[Len(pages)] = None THEN <<>> ELSE pages[Len(pages)].some \o NL)

\* the paths a client has the parser extract, one after the other
\* "a.pdf", "old/a.pdf", "a.pdf", "b.pdf"
PathLists == {<<<<"a", ".", "p", "d", "f">>, <<"o", "l", "d", "/", "a", ".", "p", "d", "f">>>>,
    <<<<"a", ".", "p", "d", "f">>, <<"b", ".", "p", "d", "f">>>>}

\* everything but the extractor's state, pc and file_index
parsing == <<statement_type, validation_results, now, folder, pdf_files, text, transactions,
             seen_transactions, parsed_as, validate_returned, all_transactions,
             processed_files, returned, results>>

InitExtract ==
    /\ statement_type = CREDIT_CARD
    /\ validation_results = <<>>
    /\ now \in {clock \in Clock : clock.tod = 1}
    /\ folder = None
    /\ pc = "call"
    /\ pdf_files \in PathLists
    /\ file_index = 1
    /\ text = None
    /\ transactions = <<>>
    /\ seen_transactions = {}
    /\ parsed_as = None
    /\ validate_returned = None
    /\ all_transactions = <<>>
    /\ processed_files = 0
    /\ returned = None
    /\ results = <<>>
    /\ NoExtraction
    /\ NoScan

\* extract_text_from_pdf(pdf_files[file_index]) up to the first password
\* prompt: open, PdfReader, is_encrypted and reader.decrypt("")
OpenPdf ==
    /\ pc \in {"call", "returned"}
    /\ pc = "returned" => extracted.some.raises = None
    /\ file_index <= Len(pdf_files)
    /\ pdf_path' = Some(pdf_files[file_index])
    /\ file_index' = file_index + 1
    /\ attempt' = 0
    /\ password' = None
    /\ \E document \in PdfDocuments :
          IF ~document.exists
          THEN /\ reader' = None
               /\ extracted' = Some(Returned(None))
               /\ pc' = "returned"
          ELSE IF ~document.is_encrypted
          THEN /\ reader' = Some([document |-> document, decrypted |-> FALSE,
                                  decrypt_calls |-> <<>>, pages_read |-> FALSE])
               /\ extracted' = None
               /\ pc' = "pages"
          ELSE /\ reader' = Some([document |-> document,
                                  decrypted |-> /\ document.decrypt[""].raises = None
                                                /\ document.decrypt[""].returns.some > 0,
                                  decrypt_calls |-> <<"">>, pages_read |-> FALSE])
               /\ IF document.decrypt[""].raises # None
                  THEN extracted' = Some(Returned(None)) /\ pc' = "returned"
                  ELSE IF document.decrypt[""].returns.some > 0
                  THEN extracted' = None /\ pc' = "pages"
                  ELSE extracted' = None /\ pc' = "password"
    /\ UNCHANGED <<password_cache, use_same_password, common_password>>
    /\ UNCHANGED parsing
    /\ UNCHANGED scanner

\* password = self._get_password_for_file(pdf_path, attempt); None returns
\* None, an exception at the same-password prompt is caught by the except
\* Exception of the empty-password try, and Ctrl-C there leaves the method
GetPassword ==
    /\ pc = "password"
    /\ \E answer \in Answers, typed \in Typed :
          \E got \in {_get_password_for_file(PasswordFields, pdf_path.some, attempt, answer,
                                              typed)} :
              /\ password_cache' = got.self.password_cache
              /\ use_same_password' = got.self.use_same_password
              /\ common_password' = got.self.common_password
              /\ IF got.outcome.raises # None
                 THEN /\ password' = None
                      /\ extracted' = Some(IF Catches("Exception", got.outcome.raises.some)
                                           THEN Returned(None) ELSE got.outcome)
                      /\ pc' = "returned"
                 ELSE IF got.outcome.returns.some = None
                 THEN /\ password' = None
                      /\ extracted' = Some(Returned(None))
                      /\ pc' = "returned"
                 ELSE /\ password' = got.outcome.returns.some
                      /\ extracted' = None
                      /\ pc' = "decrypt"
    /\ UNCHANGED <<pdf_path, reader, attempt, file_index>>
    /\ UNCHANGED parsing
    /\ UNCHANGED scanner

\* the loop goes on with the next attempt, or is exhausted
NextAttempt == IF attempt + 1 < max_password_attempts THEN "password" ELSE "pages"

\* decrypt_result = reader.decrypt(password) and what follows it in the loop
Decrypt ==
    /\ pc = "decrypt"
    /\ \E result \in {reader.some.document.decrypt[password.some]} :
          /\ reader' = Some([reader.some EXCEPT
                                !.decrypt_calls = Append(@, password.some),
                                !.decrypted = result.raises = None /\ result.returns.some > 0])
          /\ IF result.raises # None
             THEN /\ UNCHANGED <<password_cache, common_password>>
                  /\ IF IsLastAttempt(attempt)
                     THEN extracted' = Some(Returned(None)) /\ pc' = "returned"
                                                            /\ attempt' = attempt
                     ELSE extracted' = None /\ pc' = NextAttempt /\ attempt' = attempt + 1
             ELSE IF result.returns.some = 0
             THEN /\ password_cache' = DelItem(password_cache, basename(pdf_path.some))
                  /\ common_password' = IF use_same_password = Some(TRUE) THEN None
                                        ELSE common_password
                  /\ IF IsLastAttempt(attempt)
                     THEN extracted' = Some(Returned(None)) /\ pc' = "returned"
                                                            /\ attempt' = attempt
                     ELSE extracted' = None /\ pc' = NextAttempt /\ attempt' = attempt + 1
             ELSE /\ UNCHANGED <<password_cache, common_password, attempt>>
                  /\ extracted' = None
                  /\ pc' = "pages"
    /\ UNCHANGED <<use_same_password, pdf_path, password, file_index>>
    /\ UNCHANGED parsing
    /\ UNCHANGED scanner

\* the loop over reader.pages and `return text`; the pages of a document
\* that is still encrypted raise, and the outer except returns None
ReadPages ==
    /\ pc = "pages"
    /\ reader' = Some([reader.some EXCEPT !.pages_read = TRUE])
    /\ extracted' = Some(IF reader.some.document.is_encrypted /\ ~reader.some.decrypted
                         THEN Returned(None)
                         ELSE Returned(Some(PagesText(reader.some.document.pages))))
    /\ pc' = "returned"
    /\ UNCHANGED <<password_cache, use_same_password, common_password, pdf_path, attempt,
                   password, file_index>>
    /\ UNCHANGED parsing
    /\ UNCHANGED scanner

NextExtract == OpenPdf \/ GetPassword \/ Decrypt \/ ReadPages

SpecExtract == InitExtract /\ [][NextExtract]_vars

(***************************************************************************)
(* The current-account scan, one step of its two loops at a time           *)
(***************************************************************************)
\* the lookahead starting at the matched line itself
LookaheadAtMatch(i) == i

\* j = i + 1: the lookahead starts at the line after the matched one
LookaheadStart(i) == i + 1

\* what the body of the `if match:` branch does with the matched line and
\* the collected detail lines, from `if detail_lines:` to transactions.append
ScanEntry(line, match, detail_lines, filename, statement_year, acc) ==
    LET date_str == group(line, match, 1)
        base_description == group(line, match, 2)
        amount_with_sign == group(line, match, 3)
        balance_str == group(line, match, 4)
        full_description == clean_description(FullDescription(base_description, detail_lines))
        amount_float ==
            float_of(remove_char(SubSeq(amount_with_sign, 1, Len(amount_with_sign) - 1), ","))
        transaction_type == CurrentAccountType(amount_with_sign)
        parsed_date == _parse_current_account_date(date_str, statement_year)
        transaction_id == CurrentAccountId(date_str, full_description, amount_float,
                                           detail_lines, balance_str)
    IN  IF full_description = <<>> \/ Len(full_description) < 3 THEN acc
        ELSE IF ~is_valid_transaction(full_description) THEN acc
        ELSE IF transaction_type = "UNKNOWN" THEN acc
        ELSE IF AlreadySeen(transaction_id, acc.seen) THEN acc
        ELSE [transactions |->
                 Append(acc.transactions,
                        Transaction(parsed_date, parsed_date, parsed_date, full_description,
                                    amount_float, transaction_type, filename)),
              seen |-> acc.seen \cup {transaction_id}]

\* texts of up to five lines: a line that is no transaction, a transaction
\* line, lines after it, and another transaction line, which may repeat the
\* first one
ScanTexts ==
    {h \o s \o a \o b \o l :
        h \in {<<>>, NoteLine},
        s \in {<<>>, AccountDebitLine, AccountShortLine},
        a \in {<<>>, AccountNumberLine, NoteLine, BlankLine, EndingLine},
        b \in {<<>>, NameLine},
        l \in {<<>>, AccountCreditLine, AccountDebitLine}}

\* parse_transactions has called _parse_current_account_transactions(text,
\* filename, statement_year, set()): lines = text.split('\n'), i = 0
InitScan ==
    /\ statement_type = CURRENT_ACCOUNT
    /\ validation_results = <<>>
    /\ now \in {clock \in Clock : clock.tod = 1}
    /\ folder = None
    /\ pc = "scan"
    /\ pdf_files = <<ClientFile>>
    /\ file_index = 1
    /\ text \in {Some(d) : d \in ScanTexts}
    /\ transactions = <<>>
    /\ seen_transactions = NewSeenTransactions
    /\ parsed_as = Some(CURRENT_ACCOUNT)
    /\ validate_returned = None
    /\ all_transactions = <<>>
    /\ processed_files = 0
    /\ returned = None
    /\ results = <<>>
    /\ NoExtraction
    /\ scan_lines = split(text.some, NL)
    /\ scan_i = 1
    /\ scan_j = 1
    /\ scan_detail_lines = <<>>

\* everything the scan leaves alone
outside_scan == <<statement_type, validation_results, now, folder, pdf_files, file_index, text,
                  parsed_as, validate_returned, all_transactions, processed_files, returned,
                  results>>

\* one pass through the head of the outer loop: the line does not match and
\* i += 1, or it matches and the lookahead is set up
ScanLine ==
    /\ pc = "scan"
    /\ scan_i <= Len(scan_lines)
    /\ IF re_match(transaction_pattern, strip(scan_lines[scan_i])).ok
       THEN /\ scan_j' = LookaheadStart(scan_i)
            /\ scan_detail_lines' = <<>>
            /\ pc' = "lookahead"
            /\ UNCHANGED scan_i
       ELSE /\ scan_i' = scan_i + 1
            /\ UNCHANGED <<scan_j, scan_detail_lines, pc>>
    /\ UNCHANGED <<scan_lines, transactions, seen_transactions>>
    /\ UNCHANGED outside_scan
    /\ UNCHANGED extractor

\* one pass through the inner loop that does not break: the line is
\* collected if it is a detail line, and j += 1
LookaheadLine ==
    /\ pc = "lookahead"
    /\ scan_j <= Len(scan_lines)
    /\ ~StopsLookahead(scan_lines[scan_j])
    /\ scan_detail_lines' = IF IsDetailLine(scan_lines[scan_j])
                            THEN Append(scan_detail_lines, strip(scan_lines[scan_j]))
                            ELSE scan_detail_lines
    /\ scan_j' = scan_j + 1
    /\ UNCHANGED <<scan_lines, scan_i, pc, transactions, seen_transactions>>
    /\ UNCHANGED outside_scan
    /\ UNCHANGED extractor

\* the inner loop ends, by break or at the end of the lines; the entry is
\* appended or skipped, and i = j
EndLookahead ==
    /\ pc = "lookahead"
    /\ scan_j > Len(scan_lines) \/ StopsLookahead(scan_lines[scan_j])
    /\ \E entry \in {ScanEntry(strip(scan_lines[scan_i]),
                               re_match(transaction_pattern, strip(scan_lines[scan_i])),
                               scan_detail_lines, pdf_files[file_index],
                               extract_statement_year(text.some),
                               [transactions |-> transactions, seen |-> seen_transactions])} :
          /\ transactions' = entry.transactions
          /\ seen_transactions' = entry.seen
    /\ scan_i' = scan_j
    /\ pc' = "scan"
    /\ UNCHANGED <<scan_lines, scan_j, scan_detail_lines>>
    /\ UNCHANGED outside_scan
    /\ UNCHANGED extractor

\* i < len(lines) fails: return transactions
ReturnTransactions ==
    /\ pc = "scan"
    /\ scan_i > Len(scan_lines)
    /\ pc' = "scanned"
    /\ UNCHANGED <<transactions, seen_transactions>>
    /\ UNCHANGED outside_scan
    /\ UNCHANGED extractor
    /\ UNCHANGED scanner

NextScan == ScanLine \/ LookaheadLine \/ EndLookahead \/ ReturnTransactions

SpecScan == InitScan /\ [][NextScan]_vars

\* The loops are sequential code: a pass that can be made is made.  A pass
\* can be made exactly when pc is not "scanned", and every pass changes pc or
\* an index, so the weak fairness of NextScan is that the state does not
\* stay the same for ever before the scan has returned.
SpecScanFair == SpecScan /\ (<>[](pc # "scanned") => []<><<TRUE>>_vars)

(***************************************************************************)
(* A run of process_all_statements over documents given page by page       *)
(***************************************************************************)
\* a page: None for one whose extract_text raises, the empty string for one
\* that carries no text, or the text of a statement
PageTexts == {None, Some(<<>>), Some(DatedHeading \o CardRefund \o ClosingOne)}
\* the most pages of a document
MaxPages == 2
PageLists == UNION {[1..n -> PageTexts] : n \in 0..MaxPages}

\* what extract_text_from_pdf returns for an unencrypted document of these
\* pages
ExtractedPages(pages) == Some(PagesText(pages))

\* a new parser and a folder of one or two unencrypted documents, or none
InitPages ==
    /\ statement_type = CREDIT_CARD
    /\ validation_results = <<>>
    /\ now \in {clock \in Clock : clock.tod = 1}
    /\ folder \in {None} \cup
                  {Some(Listing(f)) :
                      f \in UNION {[names -> {ExtractedPages(p) : p \in PageLists}] :
                                   \* "a.pdf", "a.pdf", "b.pdf"
                                   names \in {{<<"a", ".", "p", "d", "f">>}, {<<"a", ".", "p", "d",
                                       "f">>, <<"b", ".", "p", "d", "f">>}}}}
    /\ pc = "start"
    /\ pdf_files = <<>>
    /\ file_index = 1
    /\ text = None
    /\ transactions = <<>>
    /\ seen_transactions = {}
    /\ parsed_as = None
    /\ validate_returned = None
    /\ all_transactions = <<>>
    /\ processed_files = 0
    /\ returned = None
    /\ results = <<>>
    /\ NoExtraction
    /\ NoScan

SpecPages == InitPages /\ [][Next]_vars

(***************************************************************************)
(* Properties of a run of process_all_statements (Spec, SpecFair)          *)
(***************************************************************************)
\* the files of the run whose extraction gave a text
Processed == SelectSeq(pdf_files, LAMBDA f : Truthy(folder.some[f]))

\* the file names of the verdicts, in the order recorded
VerdictFiles == [i \in 1..Len(validation_results) |-> validation_results[i].filename]

\* the part of the aggregate list that came from file f
Contribution(f) == SelectSeq(all_transactions, LAMBDA t : t.source_file = f)

\* C1: every document whose extraction succeeds is parsed with the dialect
\* that detect_statement_type finds in its own text, never with one fixed
\* before the text was seen.
C1_ParsedAsDetected ==
    pc = "validate" => parsed_as = Some(detect_statement_type(text.some))

\* C2: validation_results only grows, by one verdict at a time, appended for
\* the document at hand once parse_transactions has returned its list; the
\* verdicts recorded earlier stay as they are; and when the run ends there is
\* exactly one verdict for each document processed, in the order processed.
C2_Step ==
    /\ Len(validation_results') >= Len(validation_results)
    /\ SubSeq(validation_results', 1, Len(validation_results)) = validation_results
    /\ validation_results' # validation_results =>
          /\ pc = "validate"
          /\ parsed_as # None
          /\ transactions' = transactions
          /\ Len(validation_results') = Len(validation_results) + 1
          /\ validation_results'[Len(validation_results')].filename = pdf_files[file_index]
    /\ pc' = "done" => VerdictFiles' = Processed'
C2_OneVerdictPerDocument == [][C2_Step]_vars

\* a run ended with two verdicts, for two different files
C2_Witness ==
    /\ pc = "done"
    /\ Len(validation_results) = 2
    /\ validation_results[1].filename # validation_results[2].filename

\* the run ended with its summary: nothing of file f in the aggregate list,
\* and every file that gave a text parsed, validated and counted
RunCompleteWithout(f) ==
    /\ pc = "done"
    /\ returned = Some(all_transactions)
    /\ Contribution(f) = <<>>
    /\ VerdictFiles = Processed
    /\ processed_files = Len(Processed)
    /\ \A t \in Range(all_transactions) : t.source_file \in Range(Processed)

\* C3: when extraction gives no text for a file, the run goes on and reaches
\* its summary; the file contributes no transaction, and every file after it
\* in the sorted list that gives a text is parsed and validated.
C3_FailedExtractionSkipped ==
    \A f \in PdfNames :
        (pc = "extract" /\ pdf_files[file_index] = f /\ ~Truthy(folder.some[f]))
            ~> RunCompleteWithout(f)

\* a run ended in which a file without text came before one whose
\* transactions are in the aggregate list
C3_Witness ==
    /\ pc = "done"
    /\ Len(pdf_files) = 2
    /\ ~Truthy(folder.some[pdf_files[1]])
    /\ Contribution(pdf_files[2]) # <<>>
    /\ VerdictFiles = <<pdf_files[2]>>

\* what one document yields when the parser of the chosen dialect starts from
\* an empty set
Alone(text_, filename) ==
    IF statement_type = CREDIT_CARD
    THEN _parse_credit_card_transactions(text_, filename, extract_statement_year(text_),
                                         {}).transactions
    ELSE IF statement_type = CURRENT_ACCOUNT
    THEN _parse_current_account_transactions(text_, filename, extract_statement_year(text_),
                                             {}).transactions
    ELSE <<>>

\* C8: the set of seen transactions is per document: at the end of the run
\* every document has contributed to the aggregate list exactly what it
\* yields on its own, whatever the documents before it held.
C8_DedupPerDocument ==
    pc = "done" =>
        \A f \in Range(Processed) : Contribution(f) = Alone(folder.some[f].some, f)

\* a run ended on two documents with the same text, each with its
\* transactions in the aggregate list
C8_Witness ==
    /\ pc = "done"
    /\ Len(pdf_files) = 2
    /\ Truthy(folder.some[pdf_files[1]])
    /\ folder.some[pdf_files[1]] = folder.some[pdf_files[2]]
    /\ Contribution(pdf_files[1]) # <<>>
    /\ Len(Contribution(pdf_files[2])) = Len(Contribution(pdf_files[1]))

(***************************************************************************)
(* Properties of the parser's methods called on one document (SpecClient)  *)
(***************************************************************************)
\* the amounts of the DEBIT entries of a list added up from the left
RECURSIVE DebitsAddedUp(_)
DebitsAddedUp(list) ==
    IF list = <<>> THEN FloatZero
    ELSE LET t == list[Len(list)]
             before == DebitsAddedUp(SubSeq(list, 1, Len(list) - 1))
         IN  IF t.type = "DEBIT" THEN FloatAdd(before, t.amount) ELSE before

HasDebit == \E t \in Range(transactions) : t.type = "DEBIT"
HasCredit == \E t \in Range(transactions) : t.type = "CREDIT"

\* C4: the calculated_sum of every verdict is the sum of the amounts of the
\* document's DEBIT transactions, 0.0 when it has none; CREDIT transactions
\* add nothing to it.
C4_SumOfDebits ==
    \A v \in Range(validation_results) : v.calculated_sum = DebitsAddedUp(transactions)

\* a verdict with a sum above zero for a document that also has a credit
C4_Witness ==
    /\ HasCredit
    /\ \E v \in Range(validation_results) : v.calculated_sum.c > 0

\* the distance of two amounts in whole cents
CentsApart(x, y) == IF x.c >= y.c THEN x.c - y.c ELSE y.c - x.c

\* C5: with a debit and a stated total found, the verdict is PASS exactly when
\* the computed sum and the stated total are at most one cent (0.01) apart,
\* FAIL otherwise, and the recorded difference is their distance.
C5_PassWithinOneCent ==
    \A v \in Range(validation_results) :
        v.status \in {"PASS", "FAIL"} =>
            /\ v.status = "PASS" <=> CentsApart(v.calculated_sum, v.pdf_total) <= 1
            /\ v.difference.c = CentsApart(v.calculated_sum, v.pdf_total)

\* some total label pattern matches the text
TotalLabelFound == \E p \in 1..Len(total_patterns) : re_search(total_patterns[p], text.some).ok

\* C6: the verdict is NO_DEBITS whenever the document has no debit, stated
\* total or not; NO_TOTAL when it has a debit and no total label matches;
\* and the call returns false for FAIL only.
C6_NoDebitsNoTotal ==
    /\ \A v \in Range(validation_results) :
          /\ v.status \in {"NO_DEBITS", "NO_TOTAL", "PASS", "FAIL"}
          /\ v.status = "NO_DEBITS" <=> ~HasDebit
          /\ v.status = "NO_TOTAL" <=> HasDebit /\ ~TotalLabelFound
    /\ Len(Returns("validate_debit_transactions")) = Len(validation_results)
    /\ \A i \in 1..Len(validation_results) :
          Returns("validate_debit_transactions")[i] = (validation_results[i].status # "FAIL")

\* NO_DEBITS recorded, and true returned, for a text that states a total
C6_Witness ==
    /\ TotalLabelFound
    /\ validation_results # <<>>
    /\ validation_results[1].status = "NO_DEBITS"
    /\ validate_returned = Some(TRUE)

\* C7 as stated: no two transactions of one document agree in transaction
\* date, description (with the detail lines of the current-account dialect)
\* and amount value.
C7_NoSharedDateDescriptionAmount ==
    \A i, j \in 1..Len(transactions) :
        i < j => ~ /\ transactions[i].transaction_date = transactions[j].transaction_date
                   /\ transactions[i].description = transactions[j].description
                   /\ transactions[i].amount = transactions[j].amount

\* how a key of the set begins for a transaction dated yyyy-mm-dd: dd/mm_description_
KeyHead(t) ==
    SubSeq(t.transaction_date, 9, 10) \o <<"/">> \o SubSeq(t.transaction_date, 6, 7) \o <<"_">>
        \o t.description \o <<"_">>

\* C7: no two transactions of one document share the key the parser builds
\* (credit card: raw date, description, amount as written; current account:
\* raw date, description, amount value, first three detail lines, balance as
\* written): the set holds one key for each transaction returned, and a
\* candidate whose key is in the set is dropped.
C7_NoSharedKey ==
    /\ Cardinality(seen_transactions) = Len(transactions)
    /\ \A t \in Range(transactions) : \E k \in seen_transactions : startswith(k, KeyHead(t))
    /\ \A k \in seen_transactions : \E t \in Range(transactions) : startswith(k, KeyHead(t))

\* the credit-card parser has gone through the purchase listed twice and its
\* refund, and returned two transactions
C7_Witness ==
    /\ parsed_as = Some(CREDIT_CARD)
    /\ contains(text.some, CardRepeated)
    /\ Len(transactions) = 2
    /\ Cardinality(seen_transactions) = 2

\* C9: two parse_transactions calls on one parser with the same text and
\* file name return the same transactions in the same order.
C9_ParseTwiceSame ==
    \A i, j \in 1..Len(Returns("parse_transactions")) :
        Returns("parse_transactions")[i] = Returns("parse_transactions")[j]

\* two calls have returned, with a list that is not empty
C9_Witness ==
    /\ Len(Returns("parse_transactions")) >= 2
    /\ Returns("parse_transactions")[2] # <<>>

\* how many phrases of a list occur in the text in upper case
Present(indicators) == Cardinality({p \in Range(indicators) : contains(upper(text.some), p)})

\* C10: detect_statement_type returns one of the two dialects:
\* CURRENT_ACCOUNT exactly when more current-account phrases than credit-card
\* phrases occur in the upper-cased text, CREDIT_CARD otherwise.
C10_MoreIndicatorsWin ==
    \A d \in Range(Returns("detect_statement_type")) :
        /\ d \in {CREDIT_CARD, CURRENT_ACCOUNT}
        /\ d = CURRENT_ACCOUNT <=> Present(current_account_indicators) > Present(credit_card_indicators)

\* CREDIT_CARD returned on a tie of one phrase each
C10_Witness ==
    /\ Present(current_account_indicators) = Present(credit_card_indicators)
    /\ Present(credit_card_indicators) > 0
    /\ CREDIT_CARD \in Range(Returns("detect_statement_type"))

(***************************************************************************)
(* Properties of one parse of a text of a few lines (SpecLines)            *)
(***************************************************************************)
\* the lines of the text, as split('\n') gives them
TextLines == split(text.some, NL)

\* the words of a line from word a to word b, one space between them
WordsOf(line, a, b) == join(<<" ">>, SubSeq(split_ws(line), a, b))

\* line shows transaction t in the credit-card layout: two dates, then the
\* words of t's description, then the amount
CardLineOf(line, t) ==
    /\ Len(split_ws(line)) >= 4
    /\ WordsOf(line, 3, Len(split_ws(line)) - 1) = t.description

\* line starts transaction t in the current-account layout: a date, then the
\* words t's description begins with, then the signed amount and the balance
AccountLineOf(line, t) ==
    /\ Len(split_ws(line)) >= 4
    /\ startswith(t.description, WordsOf(line, 2, Len(split_ws(line)) - 2))

LastWord(line) == split_ws(line)[Len(split_ws(line))]
SignedAmount(line) == split_ws(line)[Len(split_ws(line)) - 1]

\* C11: every transaction a parse emits is a CREDIT or a DEBIT, never
\* anything else; in credit-card mode it is a CREDIT exactly when CR follows
\* the amount on its line; in current-account mode it is a CREDIT exactly when
\* the signed amount on its line ends in '+' and a DEBIT exactly when it ends
\* in '-'.
C11_DirectionFollowsMarker ==
    parsed_as # None =>
        \A k \in 1..Len(transactions) :
            LET t == transactions[k] IN
            /\ t.type \in {"CREDIT", "DEBIT"}
            /\ parsed_as = Some(CREDIT_CARD) =>
                  /\ \E i \in 1..Len(TextLines) : CardLineOf(TextLines[i], t)
                  /\ \A i \in 1..Len(TextLines) :
                        CardLineOf(TextLines[i], t) =>
                            ((t.type = "CREDIT") <=> endswith(LastWord(TextLines[i]), <<"C", "R">>))
            /\ parsed_as = Some(CURRENT_ACCOUNT) =>
                  /\ \E i \in 1..Len(TextLines) : AccountLineOf(TextLines[i], t)
                  /\ \A i \in 1..Len(TextLines) :
                        AccountLineOf(TextLines[i], t) =>
                            /\ (t.type = "CREDIT") <=> endswith(SignedAmount(TextLines[i]), <<"+">>)
                            /\ (t.type = "DEBIT") <=> endswith(SignedAmount(TextLines[i]), <<"-">>)

\* a credit-card parse gave the refund of the first line as a CREDIT and the
\* purchase of the last line as a DEBIT
C11_Witness ==
    /\ parsed_as = Some(CREDIT_CARD)
    /\ Len(transactions) = 2
    \* "STARBUCKS KL"
    /\ transactions[1].type = "CREDIT" /\ transactions[1].description = <<"S", "T", "A", "R", "B",
        "U", "C", "K", "S", " ", "K", "L">>
    \* "SHOP"
    /\ transactions[2].type = "DEBIT" /\ transactions[2].description = <<"S", "H", "O", "P">>

\* no whitespace at either end of s and no two whitespace characters in a row
Collapsed(s) ==
    /\ s # <<>> => s[1] \notin SPACE /\ s[Len(s)] \notin SPACE
    /\ \A i \in 1..(Len(s) - 1) : ~(s[i] \in SPACE /\ s[i + 1] \in SPACE)

\* the text holds line, and the parse gave a transaction whose description
\* begins with words
KeptFrom(line, words) ==
    contains(text.some, line) =>
        \E k \in 1..Len(transactions) : startswith(transactions[k].description, words)

\* C12: every transaction a parse emits has an amount of at least zero and a
\* description that is not empty, has no whitespace at its ends and no two
\* whitespace characters in a row, is at least 3 characters long and holds
\* none of the skip keywords in any letter case; and a candidate that fails
\* does not end the parse: the transaction line after it is still emitted.
C12_EmittedPassFilters ==
    parsed_as # None =>
        /\ \A k \in 1..Len(transactions) :
              LET t == transactions[k] IN
              /\ ~FloatIsNeg(t.amount)
              /\ t.description # <<>>
              /\ Collapsed(t.description)
              /\ Len(t.description) >= 3
              /\ \A i \in 1..Len(skip_keywords) :
                    ~contains(upper(t.description), skip_keywords[i])
        \* "SHOP"
        /\ parsed_as = Some(CREDIT_CARD) => KeptFrom(CardDebitLine, <<"S", "H", "O", "P">>)
        \* "CDM CASH DEPOSIT"
        /\ parsed_as = Some(CURRENT_ACCOUNT) => KeptFrom(AccountCreditLine, <<"C", "D", "M", " ",
            "C", "A", "S", "H", " ", "D", "E", "P", "O", "S", "I", "T">>)

\* a current-account parse dropped a first line whose description holds a
\* keyword in lower case, and emitted the deposit two lines further on
C12_Witness ==
    /\ parsed_as = Some(CURRENT_ACCOUNT)
    /\ text = Some(AccountKeywordLine \o AccountNumberLine \o AccountCreditLine)
    /\ Len(transactions) = 1
    \* "CDM CASH DEPOSIT"
    /\ transactions[1].description = <<"C", "D", "M", " ", "C", "A", "S", "H", " ", "D", "E", "P",
        "O", "S", "I", "T">>

\* what a line after a transaction line adds to the description: the account
\* number, the name with its blanks collapsed, the reference code; nothing
\* for the other lines
DetailText(line) ==
    \* "1234567890123"
    IF line = AccountNumberLine THEN <<"1", "2", "3", "4", "5", "6", "7", "8", "9", "0", "1", "2",
        "3">>
    \* "JOHN DOE"
    ELSE IF line = NameLine THEN <<"J", "O", "H", "N", " ", "D", "O", "E">>
    ELSE IF line = ReferenceLine THEN <<"7", "Q">>
    ELSE <<>>
Attached(line) == IF DetailText(line) = <<>> THEN <<>> ELSE <<" ", "|", " ">> \o DetailText(line)

\* the lines after a transaction line that do not end its details, the
\* line of four asterisks apart
Continuing ==
    {<<>>, AccountNumberLine, NameLine, ReferenceLine, StarLine, TwoStarLine, LetterLine,
     NoteLine}

\* C15: in current-account mode a transaction line followed by detail lines
\* gives exactly one transaction, whose description is the base description
\* followed by each meaningful detail line, in the order of the text, each
\* after the separator ' | '; '05/01 TRANSFER TO A/C 100.00- 500.00' followed
\* by '   1234567890123' gives one DEBIT of 100.00 with the account number in
\* its description.
C15_DetailsJoined ==
    parsed_as = Some(CURRENT_ACCOUNT) =>
        \A a \in FirstAfter \cap Continuing, b \in SecondAfter \cap Continuing, l \in LastLines :
            text = Some(AccountDebitLine \o a \o b \o l) =>
                /\ Len(transactions) = IF startswith(l, AccountCreditLine) THEN 2 ELSE 1
                /\ transactions[1].description
                     \* "TRANSFER TO A/C"
                     = <<"T", "R", "A", "N", "S", "F", "E", "R", " ", "T", "O", " ", "A", "/",
                         "C">> \o Attached(a) \o Attached(b)
                /\ transactions[1].type = "DEBIT"
                \* "100.00"
                /\ transactions[1].amount = float_of(<<"1", "0", "0", ".", "0", "0">>)

\* the transfer followed by an account number and a name
C15_Witness ==
    /\ parsed_as = Some(CURRENT_ACCOUNT)
    /\ text = Some(AccountDebitLine \o AccountNumberLine \o NameLine)
    /\ Len(transactions) = 1
    \* "TRANSFER TO A/C | 1234567890123 | JOHN DOE"
    /\ transactions[1].description = <<"T", "R", "A", "N", "S", "F", "E", "R", " ", "T", "O", " ",
        "A", "/", "C", " ", "|", " ", "1", "2", "3", "4", "5", "6", "7", "8", "9", "0", "1", "2",
        "3", " ", "|", " ", "J", "O", "H", "N", " ", "D", "O", "E">>

\* the lines that end the details of a transaction, a transaction line apart
StopLines == {BlankLine, EndingLine, BeginningLine}

\* what the lines a and b after a transaction line add to its description
\* when a stop line ends the details
DetailsUntilStop(a, b) ==
    IF a \in StopLines THEN <<>>
    ELSE Attached(a) \o (IF b \in StopLines THEN <<>> ELSE Attached(b))

\* C18: in the current-account scan the details of a transaction end at the
\* first line after it that is a transaction line, a blank line or a line
\* beginning with BEGINNING BALANCE or ENDING BALANCE, or at the end of the
\* text; no line from there on is added to its description; the scan goes on
\* at that very line, so a transaction line that ends the details of an
\* earlier one is itself emitted, with the detail lines that follow it.
C18_DetailsEndAtStopLine ==
    parsed_as = Some(CURRENT_ACCOUNT) =>
        \A a \in FirstAfter \ {FourStarLine}, b \in SecondAfter, l \in LastLines :
            text = Some(AccountDebitLine \o a \o b \o l) =>
                \* "TRANSFER TO A/C"
                /\ transactions[1].description = <<"T", "R", "A", "N", "S", "F", "E", "R", " ",
                    "T", "O", " ", "A", "/", "C">> \o DetailsUntilStop(a, b)
                /\ IF startswith(l, AccountCreditLine)
                   THEN /\ Len(transactions) = 2
                        /\ transactions[2].description
                             \* "CDM CASH DEPOSIT"
                             = <<"C", "D", "M", " ", "C", "A", "S", "H", " ", "D", "E", "P", "O",
                                 "S", "I", "T">>
                                 \o (IF l = AccountCreditLine THEN <<>>
                                     ELSE Attached(AccountNumberLine))
                   ELSE Len(transactions) = 1

\* an account number after ENDING BALANCE stays out of the transfer's
\* description, and the deposit after it is emitted with its own detail
C18_Witness ==
    /\ parsed_as = Some(CURRENT_ACCOUNT)
    /\ text = Some(AccountDebitLine \o EndingLine \o AccountNumberLine
                     \o AccountCreditLine \o AccountNumberLine)
    /\ Len(transactions) = 2
    \* "TRANSFER TO A/C"
    /\ transactions[1].description = <<"T", "R", "A", "N", "S", "F", "E", "R", " ", "T", "O", " ",
        "A", "/", "C">>
    \* "CDM CASH DEPOSIT | 1234567890123"
    /\ transactions[2].description = <<"C", "D", "M", " ", "C", "A", "S", "H", " ", "D", "E", "P",
        "O", "S", "I", "T", " ", "|", " ", "1", "2", "3", "4", "5", "6", "7", "8", "9", "0", "1",
        "2", "3">>

\* the parts of a description after the base description
DetailParts(description) ==
    LET parts == split(description, "|") IN [i \in 1..(Len(parts) - 1) |-> strip(parts[i + 1])]

\* a single character, or asterisks only
IsNoise(detail) == Len(detail) = 1 \/ (detail # <<>> /\ \A i \in 1..Len(detail) : detail[i] = "*")

\* C19: in current-account mode a detail line that is a single character or
\* holds asterisks only, however many, is never added to the description.
C19_NoiseNeverAppended ==
    parsed_as = Some(CURRENT_ACCOUNT) =>
        \A k \in 1..Len(transactions) :
            \A i \in 1..Len(DetailParts(transactions[k].description)) :
                ~IsNoise(DetailParts(transactions[k].description)[i])

(***************************************************************************)
(* Properties of one call of a date method (SpecDates)                     *)
(***************************************************************************)
\* s reads YYYY-MM-DD and names a day of the calendar
IsIsoDate(s) ==
    /\ Len(s) = 10 /\ s[5] = "-" /\ s[8] = "-"
    /\ IsInt(SubSeq(s, 1, 4)) /\ IsInt(SubSeq(s, 6, 7)) /\ IsInt(SubSeq(s, 9, 10))
    /\ ValidDate(DecVal(SubSeq(s, 1, 4)), DecVal(SubSeq(s, 6, 7)), DecVal(SubSeq(s, 9, 10)))

\* the call made, once it is made
DateCall == results[1]
DateCalled == pc = "dates" /\ results # <<>>

\* C13: parse_date_maybank and _parse_current_account_date never raise on a
\* DD/MM string, whatever the day and the month and whether or not a
\* statement year is known: each returns a YYYY-MM-DD date of the calendar,
\* or the DD/MM string it was given.
C13_DatesNeverRaise ==
    DateCalled =>
        /\ DateCall.raises = None
        /\ DateCall.returns # None
        /\ \/ IsIsoDate(DateCall.returns.some)
           \/ DateCall.returns.some = DateCall.args.date_str

\* 29/02 without a statement year, in a year that is no leap year and follows
\* none: datetime() raised twice, and the call returned the string as given
C13_Witness ==
    /\ DateCalled
    /\ DateCall.call = "parse_date_maybank"
    \* "29/02"
    /\ DateCall.args = [date_str |-> <<"2", "9", "/", "0", "2">>, statement_year |-> None]
    /\ now.year = 2026
    \* "29/02"
    /\ DateCall.returns = Some(<<"2", "9", "/", "0", "2">>)

\* the day and the month of the string the call was given, and the year it
\* starts from: the statement year, or the current year without one
CallDay == DecVal(SubSeq(DateCall.args.date_str, 1, 2))
CallMonth == DecVal(SubSeq(DateCall.args.date_str, 4, 5))
ChosenYear ==
    IF DateCall.args.statement_year # None THEN DateCall.args.statement_year.some
    ELSE now.year

\* the days from today to the day (y, m, d); that day lies more than 180
\* days after now exactly when this is more than 180
DaysAhead(y, m, d) == Ordinal(y, m, d) - Ordinal(now.year, now.month, now.day)
DaysAheadOf(s) ==
    DaysAhead(DecVal(SubSeq(s, 1, 4)), DecVal(SubSeq(s, 6, 7)), DecVal(SubSeq(s, 9, 10)))

\* C16: in both dialects, without a statement year the day and month are put
\* in the current year, and in the year before when that date lies more than
\* 180 days after now; so no date resolved without a statement year lies
\* more than 180 days ahead.
C16_NoFarFutureDate ==
    (DateCalled /\ DateCall.args.statement_year = None) =>
        /\ IsIsoDate(DateCall.returns.some) => DaysAheadOf(DateCall.returns.some) <= 180
        /\ ValidDate(now.year, CallMonth, CallDay) =>
              IF DaysAhead(now.year, CallMonth, CallDay) <= 180
              THEN DateCall.returns.some = strftime(now.year, CallMonth, CallDay)
              ELSE ValidDate(now.year - 1, CallMonth, CallDay) =>
                      DateCall.returns.some = strftime(now.year - 1, CallMonth, CallDay)

\* C17: when the day and month form no date in the year the call starts from,
\* the date of the year before is returned if there is one, and the string
\* as given only if there is none; 29/02 with statement year 2025 gives
\* 2024-02-29.
C17_RetryPreviousYear ==
    (DateCalled /\ ~ValidDate(ChosenYear, CallMonth, CallDay)) =>
        DateCall.returns.some =
            IF ValidDate(ChosenYear - 1, CallMonth, CallDay)
            THEN strftime(ChosenYear - 1, CallMonth, CallDay)
            ELSE DateCall.args.date_str

(***************************************************************************)
(* Properties of extract_statement_year (SpecYear)                         *)
(***************************************************************************)
\* for each heuristic, from (a) to (f), the lines that satisfy it and no
\* heuristic before it, and the year they carry
YearLines ==
    <<[lines |-> {HeaderDated, HeaderNear}, year |-> 2021],
      [lines |-> {DueDateLine}, year |-> 2022],
      [lines |-> {YearEndLine}, year |-> 2023],
      [lines |-> {PeriodLine}, year |-> 2024],
      [lines |-> {PaymentLine}, year |-> 2025],
      [lines |-> {MonthLine}, year |-> 2026]>>

\* the text holds a line for heuristic k
Found(k) == \E line \in YearLines[k].lines : contains(text.some, line)

\* C14: extract_statement_year returns the year of the first of its six
\* heuristics, taken in the order (a) to (f), that finds a year, wherever the
\* lines stand in the text; the two-digit year after the header is returned
\* as 2000 + YY; a header with no date in the 200 characters after it leaves
\* the decision to the heuristics after it; and the result is None only when
\* none of the six finds a year.
C14_FirstHeuristicWins ==
    pc = "year" =>
        \A i \in 1..Len(results) :
            /\ \A k \in 1..Len(YearLines) :
                  (Found(k) /\ \A j \in 1..(k - 1) : ~Found(j))
                      => results[i].returns = Some(YearLines[k].year)
            /\ (\A k \in 1..Len(YearLines) : ~Found(k)) <=> results[i].returns = None

\* the month line comes first in the text, and the header with its date at
\* the end of the 200 characters still decides
C14_Witness ==
    /\ pc = "year"
    /\ text = Some(MonthLine \o HeaderNear)
    /\ results # <<>>
    /\ results[1].returns = Some(2021)

(***************************************************************************)
(* Claims about extract_text_from_pdf                                      *)
(***************************************************************************)
\* the document of the extraction is encrypted and reader.decrypt("") gave 0
EmptyPasswordRejected ==
    /\ reader # None
    /\ reader.some.document.is_encrypted
    /\ reader.some.decrypt_calls # <<>>
    /\ reader.some.document.decrypt[""] = Returned(0)

\* the passwords of the decrypt calls after the one with the empty password
UserAttempts == Tail(reader.some.decrypt_calls)

\* decrypt gave 1 or 2
Opens(password_) ==
    reader.some.document.decrypt[password_] \in {Returned(1), Returned(2)}

\* the call returned a text
ReturnedText ==
    extracted # None /\ extracted.some.returns # None /\ extracted.some.returns.some # None

ScanAgrees ==
    pc = "scanned" =>
        transactions = parse_transactions(text.some, pdf_files[file_index]).transactions

\* what one step does to the two indices
ScanAdvances ==
    /\ (pc = "scan" /\ pc' = "scan") => scan_i' = scan_i + 1
    /\ (pc = "scan" /\ pc' = "lookahead") => scan_i' = scan_i /\ scan_j' = scan_i + 1
    /\ (pc = "lookahead" /\ pc' = "lookahead") => scan_i' = scan_i /\ scan_j' = scan_j + 1
    /\ (pc = "lookahead" /\ pc' = "scan") => scan_i' = scan_j /\ scan_i' >= scan_i + 1
    /\ scan_i' <= Len(scan_lines) + 1 /\ scan_j' <= Len(scan_lines) + 1

\* C21: the current-account scan ends on every text: a pass through the
\* outer loop moves i forward, by one for a line that does not match and to
\* the place where the lookahead ended, at least one past the matched line,
\* for a line that matches; a pass through the lookahead moves j forward by
\* one, until a stop line or the end of the lines.
C21_ScanTerminates == [][ScanAdvances]_vars /\ <>(pc = "scanned")

\* a scan that is over, in which a lookahead passed two lines and stopped at
\* the line of a second transaction
C21_Witness ==
    /\ pc = "scanned"
    /\ text = Some(AccountDebitLine \o AccountNumberLine \o NameLine \o AccountCreditLine)
    /\ scan_i = Len(scan_lines) + 1
    /\ Len(transactions) = 2
    /\ Len(scan_detail_lines) = 0

(***************************************************************************)
(* Claims about documents without text                                     *)
(***************************************************************************)
\* every page raises or carries no text; a document without pages included
BlankPages(pages) == \A k \in 1..Len(pages) : pages[k] = None \/ pages[k] = Some(<<>>)

\* file f of the folder is a document of blank pages
BlankDocument(f) ==
    \E pages \in PageLists : BlankPages(pages) /\ folder.some[f] = ExtractedPages(pages)

\* C22: a document that opens but whose pages all fail or carry no text is
\* handled like one whose extraction failed: it is not parsed, has no
\* verdict in validation_results, adds nothing to the aggregate list and is
\* not counted in processed_files.
C22_BlankDocumentSkipped ==
    /\ pc = "parse" => ~BlankDocument(pdf_files[file_index])
    /\ (pc = "done" /\ folder # None) =>
          /\ \A f \in Range(pdf_files) :
                BlankDocument(f) => f \notin Range(VerdictFiles) /\ Contribution(f) = <<>>
          /\ processed_files = Len(SelectSeq(pdf_files, LAMBDA f : ~BlankDocument(f)))
====
